---- MODULE Spec2Model ----
(***************************************************************************)
(* Model of onet's ServiceProcessor (processor.go): the handler registry,  *)
(* the reflective validation of handlers at registration, the dispatch of  *)
(* client requests (ProcessClientRequest) and the streaming tunnel with    *)
(* its forwarding goroutine.                                               *)
(*                                                                         *)
(* Go strings that the code takes apart (type names, route keys) are       *)
(* sequences of one-character strings. reflect.Type values are records     *)
(* [kind, str, elem, err]: Kind(), String(), Elem() (a sequence of length  *)
(* 0 or 1) and Implements(errType).                                        *)
(***************************************************************************)
EXTENDS Integers, Sequences, FiniteSets, TLC

\* ------------------------------------------------------------------ bounds

\* Streaming dispatches that may be started in one run.
MaxStreams == 1
MaxConcurrent == 2
\* Values one handler invocation sends on its output channel.
MaxItems == 2
\* Largest buffer a handler gives its own output channel (0: unbuffered).
MaxInCap == 1
\* Handlers passed to one variadic registration.
MaxBatch == 2

\* Routes that may be registered on the router.
MaxRoutes == 1

\* ------------------------------------------------------- program constants

\* kindGET
invalidGET == 0
emptyGET == 1
intGET == 2
sliceGET == 3

\* the earliest supported API level
MinSince == 3

\* net/http status codes
StatusOK == 200
StatusMovedPermanently == 301
StatusBadRequest == 400
StatusNotFound == 404
StatusMethodNotAllowed == 405
StatusInternalServerError == 500

\* make(chan []byte, 100)
OutCap == 100

\* ------------------------------------------------------------ reflect.Type

NoElem == <<>>

Ty(kind, str, elem, err) == [kind |-> kind, str |-> str, elem |-> elem, err |-> err]

Elem(t) == t.elem[1]

StructPA    == Ty("Struct", <<"p", ".", "A">>, NoElem, FALSE)
StructQA    == Ty("Struct", <<"q", ".", "A">>, NoElem, FALSE)
StructPB    == Ty("Struct", <<"p", ".", "B">>, NoElem, FALSE)
StructPR    == Ty("Struct", <<"p", ".", "R">>, NoElem, FALSE)
\* struct {}: an unnamed struct type; its String() holds no package qualifier
StructAnon  == Ty("Struct", <<"s", "{", "}">>, NoElem, FALSE)
\* struct types of the REST handlers: p.E has no field, p.D one []byte
\* field, p.S one string field, p.T two fields
StructPE    == Ty("Struct", <<"p", ".", "E">>, NoElem, FALSE)
StructPD    == Ty("Struct", <<"p", ".", "D">>, NoElem, FALSE)
StructPS    == Ty("Struct", <<"p", ".", "S">>, NoElem, FALSE)
StructPT    == Ty("Struct", <<"p", ".", "T">>, NoElem, FALSE)
StructPL    == Ty("Struct", <<"p", ".", "L">>, NoElem, FALSE)
IntT        == Ty("Int", <<"i", "n", "t">>, NoElem, FALSE)
Int64T      == Ty("Int64", <<"i", "6", "4">>, NoElem, FALSE)
Uint8T      == Ty("Uint8", <<"u", "8">>, NoElem, FALSE)
StringT     == Ty("String", <<"s", "t", "r">>, NoElem, FALSE)
BoolT       == Ty("Bool", <<"b", "o", "o", "l">>, NoElem, FALSE)
\* interface{}
AnyT        == Ty("Interface", <<"i", "{", "}">>, NoElem, FALSE)
\* error
ErrorT      == Ty("Interface", <<"e", "r", "r">>, NoElem, TRUE)
PtrTo(t)    == Ty("Ptr", <<"*">> \o t.str, <<t>>, FALSE)
ChanOf(t)   == Ty("Chan", <<"c", " ">> \o t.str, <<t>>, FALSE)
SliceOf(t)  == Ty("Slice", <<"[", "]">> \o t.str, <<t>>, FALSE)

\* reflect.StructField: Name and Type
Field(name, type) == [name |-> name, type |-> type]

\* The fields of a struct type (NumField, Field(i)): the message structs
\* have one int field X unless said otherwise above.
Fields(t) ==
  IF t = StructPE \/ t = StructAnon THEN <<>>
  ELSE IF t = StructPD THEN <<Field(<<"D">>, SliceOf(Uint8T))>>
  ELSE IF t = StructPS THEN <<Field(<<"S">>, StringT)>>
  ELSE IF t = StructPL THEN <<Field(<<"L">>, Int64T)>>
  ELSE IF t = StructPT THEN <<Field(<<"X">>, IntT), Field(<<"Y">>, IntT)>>
  ELSE <<Field(<<"X">>, IntT)>>

\* The type of a candidate handler f: reflect.TypeOf(f). A non-function has
\* kind "Int" and no ins/outs.
FuncT(ins, outs) == [kind |-> "Func", ins |-> ins, outs |-> outs]
NotFuncT         == [kind |-> "Int", ins |-> <<>>, outs |-> <<>>]

NumIn(ft)  == Len(ft.ins)
NumOut(ft) == Len(ft.outs)
In(ft, i)  == ft.ins[i + 1]
Out(ft, i) == ft.outs[i + 1]

\* The candidate handlers application code may pass to the registration
\* operations, by index.
HandlerTypes ==
  << \* 1..3: the unary shape
     FuncT(<<PtrTo(StructPA)>>, <<PtrTo(StructPR), ErrorT>>),
     FuncT(<<PtrTo(StructQA)>>, <<AnyT, ErrorT>>),
     FuncT(<<PtrTo(StructPB)>>, <<AnyT, ErrorT>>),
     \* 4..5: the streaming shape
     FuncT(<<PtrTo(StructPA)>>, <<ChanOf(AnyT), ChanOf(BoolT), ErrorT>>),
     FuncT(<<PtrTo(StructPB)>>, <<ChanOf(PtrTo(StructPR)), ChanOf(BoolT), ErrorT>>),
     \* 6: unary shape over an unnamed input struct
     FuncT(<<PtrTo(StructAnon)>>, <<PtrTo(StructPR), ErrorT>>),
     \* 7..10: bad input
     NotFuncT,
     FuncT(<<>>, <<PtrTo(StructPR), ErrorT>>),
     FuncT(<<StructPA>>, <<PtrTo(StructPR), ErrorT>>),
     FuncT(<<PtrTo(IntT)>>, <<AnyT, ErrorT>>),
     \* 11..14: bad output for both shapes
     FuncT(<<PtrTo(StructPB)>>, <<ErrorT>>),
     FuncT(<<PtrTo(StructPB)>>, <<IntT, ErrorT>>),
     FuncT(<<PtrTo(StructPB)>>, <<PtrTo(IntT), ErrorT>>),
     FuncT(<<PtrTo(StructPB)>>, <<PtrTo(StructPR), IntT>>),
     \* 15..19: bad output for the streaming shape
     FuncT(<<PtrTo(StructPB)>>, <<ChanOf(IntT), ChanOf(BoolT), ErrorT>>),
     FuncT(<<PtrTo(StructPB)>>, <<ChanOf(PtrTo(IntT)), ChanOf(BoolT), ErrorT>>),
     FuncT(<<PtrTo(StructPB)>>, <<ChanOf(AnyT), BoolT, ErrorT>>),
     FuncT(<<PtrTo(StructPB)>>, <<ChanOf(AnyT), ChanOf(IntT), ErrorT>>),
     FuncT(<<PtrTo(StructPB)>>, <<ChanOf(AnyT), ChanOf(BoolT), IntT>>),
     \* 20: two arguments
     FuncT(<<PtrTo(StructPB), PtrTo(StructPB)>>, <<AnyT, ErrorT>>) >>

HandlerIds == 1 .. Len(HandlerTypes)

\* More unary handlers, for the REST registration: Len(HandlerTypes) + 1
\* takes *p.E, + 2 takes *p.D, + 3 takes *p.S, + 4 takes *p.T.
RestHandlerTypes ==
  << FuncT(<<PtrTo(StructPE)>>, <<AnyT, ErrorT>>),
     FuncT(<<PtrTo(StructPD)>>, <<PtrTo(StructPR), ErrorT>>),
     FuncT(<<PtrTo(StructPS)>>, <<PtrTo(StructPR), ErrorT>>),
     FuncT(<<PtrTo(StructPT)>>, <<PtrTo(StructPR), ErrorT>>) >>

\* Handlers that break the contract in several places at once.
FaultyHandlerTypes ==
  << \* no pointer argument and one return value
     FuncT(<<StructPA>>, <<IntT>>),
     \* pointer to an int, and both return values bad
     FuncT(<<PtrTo(IntT)>>, <<IntT, IntT>>),
     \* 1st and 2nd return value bad
     FuncT(<<PtrTo(StructPB)>>, <<IntT, IntT>>),
     FuncT(<<PtrTo(StructPB)>>, <<PtrTo(IntT), IntT>>),
     \* streaming: 1st, 2nd and 3rd return value bad
     FuncT(<<PtrTo(StructPB)>>, <<ChanOf(IntT), IntT, IntT>>),
     \* streaming: 2nd and 3rd return value bad
     FuncT(<<PtrTo(StructPB)>>, <<ChanOf(AnyT), ChanOf(IntT), IntT>>),
     FuncT(<<PtrTo(StructPB)>>, <<ChanOf(AnyT), IntT, IntT>>),
     \* no argument and no return value
     FuncT(<<>>, <<>>),
     \* two arguments, none a pointer, and three bad return values
     FuncT(<<IntT, IntT>>, <<IntT, IntT, IntT>>) >>

FaultyIds ==
  (Len(HandlerTypes) + Len(RestHandlerTypes) + 1) ..
    (Len(HandlerTypes) + Len(RestHandlerTypes) + Len(FaultyHandlerTypes))

\* A unary handler over p.L, a struct whose one field is an int64.
FieldHandlerTypes ==
  << FuncT(<<PtrTo(StructPL)>>, <<PtrTo(StructPR), ErrorT>>) >>

FieldIds ==
  (Len(HandlerTypes) + Len(RestHandlerTypes) + Len(FaultyHandlerTypes) + 1) ..
    (Len(HandlerTypes) + Len(RestHandlerTypes) + Len(FaultyHandlerTypes)
       + Len(FieldHandlerTypes))

TypeOf(f) ==
  (HandlerTypes \o RestHandlerTypes \o FaultyHandlerTypes \o FieldHandlerTypes)[f]

\* ------------------------------------------------------------------ errors

\* A Go error value: its message and, where the code appends one, the
\* string appended to it. NilErr is the nil error.
Err(msg, detail) == [msg |-> msg, detail |-> detail]
NilErr == Err("<nil>", <<>>)

\* A panic of the Go runtime that leaves the call without a result.
Panic(msg) == Err("panic", <<msg>>)

\* ----------------------------------------------------------------- strings

\* strings.Split(s, sep) for a one-character separator
RECURSIVE SplitFrom(_, _, _, _)
SplitFrom(s, sep, i, cur) ==
  IF i > Len(s) THEN <<cur>>
  ELSE IF s[i] = sep THEN <<cur>> \o SplitFrom(s, sep, i + 1, <<>>)
  ELSE SplitFrom(s, sep, i + 1, Append(cur, s[i]))

Split(s, sep) == SplitFrom(s, sep, 1, <<>>)

\* ---------------------------------------------------------------- registry

VARIABLES
  handlers,   \* ServiceProcessor.handlers: route key -> serviceHandler
  last,       \* the last call of the processor's API and what it returned
  nstreams,   \* forwarding goroutines started so far
  inChan,     \* per stream: the handler's output channel
  closeChan,  \* per stream: the handler's close channel
  outChan,    \* per stream: the tunnel's out channel
  fwd,        \* per stream: the forwarding goroutine
  sent,       \* per stream: the values the handler has sent, in order
  delivered,  \* per stream: what the transport has read from out, in order
  mux         \* the router's ServeMux: pattern -> the handler registered for it

vars == <<handlers, last, nstreams, inChan, closeChan, outChan, fwd, sent, delivered, mux>>

streamVars == <<nstreams, inChan, closeChan, outChan, fwd, sent, delivered>>

\* serviceHandler{handler, msgType, streaming}
ServiceHandler(f, msgType, streaming) ==
  [handler |-> f, msgType |-> msgType, streaming |-> streaming]

NoHandler == ServiceHandler(0, IntT, FALSE)

\* Mutant: a key that is already registered keeps its entry.
MapPutKeep(m, k, v) == IF k \in DOMAIN m THEN m ELSE [x \in DOMAIN m \cup {k} |-> IF x = k THEN v ELSE m[x]]

\* Mutant: the map is made anew for the entry stored.
MapPutFresh(m, k, v) == [x \in {k} |-> v]

\* p.handlers[pm] = sh
MapPut(m, k, v) == [x \in DOMAIN m \cup {k} |-> IF x = k THEN v ELSE m[x]]

\* handlerInputCheck(f)
handlerInputCheck(f) ==
  LET ft == TypeOf(f) IN
  IF ft.kind # "Func" THEN Err("Input is not a function", <<>>)
  ELSE IF NumIn(ft) # 1 THEN Err("Need one argument: *struct", <<>>)
  ELSE IF In(ft, 0).kind # "Ptr"
    THEN Err("Argument must be a *pointer* to a struct", <<>>)
  ELSE IF Elem(In(ft, 0)).kind # "Struct"
    THEN Err("Argument must be a pointer to *struct*", <<>>)
  ELSE NilErr

\* pm := strings.Split(cr.Elem().String(), ".")[1]: the element at Go index
\* 1 of the split; an index-out-of-range panic when the name holds no ".".
RouteKey(cr) ==
  LET parts == Split(Elem(cr).str, ".") IN
  IF Len(parts) < 2 THEN [pm |-> <<>>, err |-> Panic("index out of range")]
  ELSE [pm |-> parts[2], err |-> NilErr]

\* createServiceHandler(f): (pm, sh, err). It uses reflect on f without
\* checks of its own on f's kind and input: reflect panics where
\* handlerInputCheck, when it is called first, returns an error.
createServiceHandler(f) ==
  LET ft   == TypeOf(f)
      fail(e) == [pm |-> <<>>, sh |-> NoHandler, err |-> e]
  IN
  IF ft.kind # "Func"
    THEN fail(Panic("reflect: NumOut of non-func type"))
  ELSE IF NumOut(ft) # 2
    THEN fail(Err("Need 2 return values: network.Body and error", <<>>))
  ELSE IF Out(ft, 0).kind # "Interface" /\ Out(ft, 0).kind # "Ptr"
    THEN fail(Err("1st return value must be a *pointer* to a struct or an interface", <<>>))
  ELSE IF Out(ft, 0).kind # "Interface" /\ Elem(Out(ft, 0)).kind # "Struct"
    THEN fail(Err("1st return value must be a pointer to a *struct* or an interface", <<>>))
  ELSE IF ~Out(ft, 1).err
    THEN fail(Err("2nd return value has to implement error, but is: ", Out(ft, 1).str))
  ELSE IF NumIn(ft) = 0
    THEN fail(Panic("reflect: Func index out of bounds"))
  ELSE IF In(ft, 0).elem = NoElem
    THEN fail(Panic("reflect: Elem of invalid type"))
  ELSE LET cr == In(ft, 0)
           rk == RouteKey(cr)
       IN  IF rk.err # NilErr THEN fail(rk.err)
           ELSE [pm |-> rk.pm, sh |-> ServiceHandler(f, Elem(cr), FALSE), err |-> NilErr]

\* Mutant: the output checks run before the input checks.
RegisterHandlerResultOutputFirst(reg, f) ==
  LET c == createServiceHandler(f) IN
  IF c.err # NilErr THEN [err |-> c.err, reg |-> reg]
  ELSE LET ierr == handlerInputCheck(f) IN
       IF ierr # NilErr THEN [err |-> ierr, reg |-> reg]
       ELSE [err |-> NilErr, reg |-> MapPut(reg, c.pm, c.sh)]

\* The body of RegisterHandler(f): the error returned and the registry after.
RegisterHandlerResult(reg, f) ==
  LET ierr == handlerInputCheck(f) IN
  IF ierr # NilErr THEN [err |-> ierr, reg |-> reg]
  ELSE LET c == createServiceHandler(f) IN
       IF c.err # NilErr THEN [err |-> c.err, reg |-> reg]
       ELSE [err |-> NilErr, reg |-> MapPut(reg, c.pm, c.sh)]

\* Mutant: the element type of the 2nd return value is not checked.
streamingOutputCheckNoBool(ft) ==
  IF NumOut(ft) # 3
    THEN Err("Need 3 return values: chan interface{}, chan bool and error", <<>>)
  ELSE IF Out(ft, 0).kind # "Chan"
    THEN Err("1st return value must be a channel", <<>>)
  ELSE IF Elem(Out(ft, 0)).kind # "Interface" /\ Elem(Out(ft, 0)).kind # "Ptr"
    THEN Err("1st return value must be a channel of a *pointer* to a struct", <<>>)
  ELSE IF Elem(Out(ft, 0)).kind # "Interface" /\ Elem(Elem(Out(ft, 0))).kind # "Struct"
    THEN Err("1st return value must be a channel of a pointer to a *struct*", <<>>)
  ELSE IF Out(ft, 1).kind # "Chan"
    THEN Err("2nd return value must be a channel", <<>>)
  ELSE IF ~Out(ft, 2).err
    THEN Err("3rd return value has to implement error, but is: ", Out(ft, 2).str)
  ELSE NilErr

\* The output checks of RegisterStreamingHandler (lines 93-123)
streamingOutputCheck(ft) ==
  IF NumOut(ft) # 3
    THEN Err("Need 3 return values: chan interface{}, chan bool and error", <<>>)
  ELSE IF Out(ft, 0).kind # "Chan"
    THEN Err("1st return value must be a channel", <<>>)
  ELSE IF Elem(Out(ft, 0)).kind # "Interface" /\ Elem(Out(ft, 0)).kind # "Ptr"
    THEN Err("1st return value must be a channel of a *pointer* to a struct", <<>>)
  ELSE IF Elem(Out(ft, 0)).kind # "Interface" /\ Elem(Elem(Out(ft, 0))).kind # "Struct"
    THEN Err("1st return value must be a channel of a pointer to a *struct*", <<>>)
  ELSE IF Out(ft, 1).kind # "Chan"
    THEN Err("2nd return value must be a channel", <<>>)
  ELSE IF Elem(Out(ft, 1)).kind # "Bool"
    THEN Err("2nd return value must be a boolean channel", <<>>)
  ELSE IF ~Out(ft, 2).err
    THEN Err("3rd return value has to implement error, but is: ", Out(ft, 2).str)
  ELSE NilErr

\* The body of RegisterStreamingHandler(f)
RegisterStreamingHandlerResult(reg, f) ==
  LET ierr == handlerInputCheck(f) IN
  IF ierr # NilErr THEN [err |-> ierr, reg |-> reg]
  ELSE LET ft   == TypeOf(f)
           oerr == streamingOutputCheck(ft)
       IN
       IF oerr # NilErr THEN [err |-> oerr, reg |-> reg]
       ELSE LET cr == In(ft, 0)
                rk == RouteKey(cr)
            IN  IF rk.err # NilErr THEN [err |-> rk.err, reg |-> reg]
                ELSE [err |-> NilErr,
                      reg |-> MapPut(reg, rk.pm, ServiceHandler(f, Elem(cr), TRUE))]

\* ---------------------------------------------------------------- protobuf

\* A []byte: nil, or a (possibly empty) sequence of bytes.
Bytes(data) == [nil |-> FALSE, data |-> data]
NilBytes    == [nil |-> TRUE, data |-> <<>>]

\* A Go interface{} value: the nil interface, a pointer to a message struct
\* whose optional field holds x (x = 0: the field is unset, an empty
\* message), a value that is no pointer, or a channel of capacity x
\* (x = -1: the nil channel).
Value(kind, x) == [kind |-> kind, x |-> x]
NilVal    == Value("nil", 0)
MsgPtr(x) == Value("msg", x)
NonPtr(x) == Value("val", x)
ChanVal(c) == Value("chan", c)

\* protobuf.Encode(v): (nil, nil) for the nil interface, an error for a
\* value that is not a pointer to a struct, else field 1 as a varint (key
\* byte 8, then the value); an empty message writes nothing and the
\* encoder's buffer is returned as it is, nil.
Encode(v) ==
  IF v.kind = "nil" THEN [buf |-> NilBytes, err |-> NilErr]
  ELSE IF v.kind # "msg"
    THEN [buf |-> NilBytes, err |-> Err("encode takes a pointer to struct", <<>>)]
  ELSE IF v.x = 0 THEN [buf |-> NilBytes, err |-> NilErr]
  ELSE [buf |-> Bytes(<<8, v.x>>), err |-> NilErr]

\* protobuf.DecodeWithConstructors(buf, msg, ...) into a fresh struct with
\* one varint field: no bytes leave it zero, <<8, x>> sets the field, and
\* anything else is malformed.
Decode(buf) ==
  IF buf.data = <<>> THEN [msg |-> MsgPtr(0), err |-> NilErr]
  ELSE IF Len(buf.data) = 2 /\ buf.data[1] = 8
    THEN [msg |-> MsgPtr(buf.data[2]), err |-> NilErr]
  ELSE [msg |-> NilVal, err |-> Err("protobuf: decode", <<>>)]

\* The payloads the transport may hand to ProcessClientRequest.
Payloads == {NilBytes, Bytes(<<8, 1>>), Bytes(<<8>>)}

\* --------------------------------------------------------------- handlers

\* The errors an application handler returns.
E1 == Err("e1", <<>>)
E2 == Err("e2", <<>>)

\* What a call of a handler returns (reflect's ret slice): ret[0], for a
\* streaming handler ret[1] (its close channel: "nil" or "c"), and the error.
Ret(v0, v1, e) == [v0 |-> v0, v1 |-> v1, e |-> e]
NoRet == Ret(NilVal, "nil", NilErr)

\* The values a handler of type ft can return.
HandlerReturns(ft) ==
  IF NumOut(ft) = 3
    THEN {Ret(ChanVal(c), cc, NilErr) : c \in -1 .. MaxInCap, cc \in {"nil", "c"}}
         \cup {Ret(ChanVal(-1), "nil", E1), Ret(ChanVal(0), "c", E2)}
  ELSE {Ret(MsgPtr(x), "nil", NilErr) : x \in 0 .. 2}
       \cup {Ret(NilVal, "nil", E1), Ret(MsgPtr(1), "nil", E2)}
       \cup (IF Out(ft, 0).kind = "Interface"
               THEN {Ret(NilVal, "nil", NilErr), Ret(NonPtr(1), "nil", NilErr)}
               ELSE {})

\* Mutant: the streaming branch does not look at the handler's error.
callInterfaceFuncNoErr(handler, input, streaming, ret) ==
  IF streaming
    THEN [reply |-> ret.v0, stop |-> ret.v1, err |-> NilErr]
  ELSE IF ret.e # NilErr
    THEN [reply |-> NilVal, stop |-> "nil", err |-> ret.e]
    ELSE [reply |-> ret.v0, stop |-> "nil", err |-> NilErr]

\* callInterfaceFunc(handler, input, streaming), the handler returning ret:
\* (interface{}, chan bool, error)
callInterfaceFunc(handler, input, streaming, ret) ==
  IF streaming
    THEN IF ret.e # NilErr
           THEN [reply |-> NilVal, stop |-> "nil", err |-> ret.e]
           ELSE [reply |-> ret.v0, stop |-> ret.v1, err |-> NilErr]
  ELSE IF ret.e # NilErr
    THEN [reply |-> NilVal, stop |-> "nil", err |-> ret.e]
    ELSE [reply |-> ret.v0, stop |-> "nil", err |-> NilErr]

\* Mutant: the handler is called before the decode error is looked at.
InnerCallFirst(ok, mh, path, buf, ret) ==
  IF ~ok
    THEN [reply |-> NilVal, stop |-> "nil", called |-> 0, calls |-> 0, arg |-> NilVal,
          err |-> Err("The requested message hasn't been registered: ", path)]
  ELSE LET d == Decode(buf)
           c == callInterfaceFunc(mh.handler, d.msg, mh.streaming, ret)
       IN
       IF d.err # NilErr
         THEN [reply |-> NilVal, stop |-> "nil", called |-> mh.handler, calls |-> 1,
               arg |-> d.msg, err |-> d.err]
         ELSE [reply |-> c.reply, stop |-> c.stop, called |-> mh.handler, calls |-> 1,
               arg |-> d.msg, err |-> c.err]

\* The closure of ProcessClientRequest (lines 402-414): the lookup result
\* (mh, ok), the decode and the call. called is the handler it invoked (0:
\* none), calls the number of times f.Call ran, and arg the message the
\* handler was given.
Inner(ok, mh, path, buf, ret) ==
  IF ~ok
    THEN [reply |-> NilVal, stop |-> "nil", called |-> 0, calls |-> 0, arg |-> NilVal,
          err |-> Err("The requested message hasn't been registered: ", path)]
  ELSE LET d == Decode(buf) IN
       IF d.err # NilErr
         THEN [reply |-> NilVal, stop |-> "nil", called |-> 0, calls |-> 0,
               arg |-> NilVal, err |-> d.err]
         ELSE LET c == callInterfaceFunc(mh.handler, d.msg, mh.streaming, ret) IN
              [reply |-> c.reply, stop |-> c.stop, called |-> mh.handler, calls |-> 1,
               arg |-> d.msg, err |-> c.err]

\* *StreamingTunnel{out, close}: out names the stream (0: the nil tunnel)
Tunnel(out, close) == [out |-> out, close |-> close]
NoTunnel == Tunnel(0, "nil")

\* Mutant: the map is read without its ok result; a missing key gives the
\* zero serviceHandler.
LookupNoOk(reg, path) ==
  IF path \in DOMAIN reg THEN [mh |-> reg[path], ok |-> TRUE]
  ELSE [mh |-> NoHandler, ok |-> TRUE]

\* Mutant: a request for a registered key gets the entry of "A" when "A"
\* is registered.
LookupAny(reg, path) ==
  IF path \in DOMAIN reg
    THEN [mh |-> IF <<"A">> \in DOMAIN reg THEN reg[<<"A">>] ELSE reg[path], ok |-> TRUE]
  ELSE [mh |-> NoHandler, ok |-> FALSE]

\* mh, ok := p.handlers[path]
Lookup(reg, path) ==
  IF path \in DOMAIN reg THEN [mh |-> reg[path], ok |-> TRUE]
  ELSE [mh |-> NoHandler, ok |-> FALSE]

\* Mutant: the forwarding goroutine of a streaming entry is started as soon
\* as the handler has been called, before its error is looked at.
ProcessResultSpawnFirst(reg, n, path, buf, ret) ==
  LET l == Lookup(reg, path)
      r == Inner(l.ok, l.mh, path, buf, ret)
      none == [reply |-> NilBytes, tun |-> NoTunnel, err |-> r.err,
               called |-> r.called, calls |-> r.calls, arg |-> r.arg,
               spawn |-> FALSE, inCh |-> NilVal]
  IN
  IF r.err # NilErr
    THEN [none EXCEPT !.spawn = l.ok /\ l.mh.streaming /\ r.called # 0,
                      !.inCh = ChanVal(-1)]
  ELSE IF l.mh.streaming
    THEN [none EXCEPT !.tun = Tunnel(n + 1, r.stop), !.spawn = TRUE, !.inCh = r.reply]
  ELSE LET e == Encode(r.reply) IN
       IF e.err # NilErr THEN [none EXCEPT !.err = Err("", <<>>)]
       ELSE [none EXCEPT !.reply = e.buf]

\* Mutant: the streaming branch returns buf (the request's payload) beside
\* the tunnel.
ProcessResultBuf(reg, n, path, buf, ret) ==
  LET l == Lookup(reg, path)
      r == Inner(l.ok, l.mh, path, buf, ret)
      none == [reply |-> NilBytes, tun |-> NoTunnel, err |-> r.err,
               called |-> r.called, calls |-> r.calls, arg |-> r.arg,
               spawn |-> FALSE, inCh |-> NilVal]
  IN
  IF r.err # NilErr THEN none
  ELSE IF l.mh.streaming
    THEN [none EXCEPT !.reply = buf, !.tun = Tunnel(n + 1, r.stop), !.spawn = TRUE,
                      !.inCh = r.reply]
  ELSE LET e == Encode(r.reply) IN
       IF e.err # NilErr THEN [none EXCEPT !.err = Err("", <<>>)]
       ELSE [none EXCEPT !.reply = e.buf]

\* ProcessClientRequest(req, path, buf) for the handler behaviour ret, with
\* n streams started before the call: what it returns, whether it starts a
\* forwarding goroutine (spawn) and on which handler channel (inCh).
ProcessResult(reg, n, path, buf, ret) ==
  LET l == Lookup(reg, path)
      r == Inner(l.ok, l.mh, path, buf, ret)
      none == [reply |-> NilBytes, tun |-> NoTunnel, err |-> r.err,
               called |-> r.called, calls |-> r.calls, arg |-> r.arg,
               spawn |-> FALSE, inCh |-> NilVal]
  IN
  IF r.err # NilErr THEN none
  ELSE IF l.mh.streaming
    THEN [none EXCEPT !.tun = Tunnel(n + 1, r.stop), !.spawn = TRUE, !.inCh = r.reply]
  ELSE LET e == Encode(r.reply) IN
       IF e.err # NilErr THEN [none EXCEPT !.err = Err("", <<>>)]
       ELSE [none EXCEPT !.reply = e.buf]

\* ----------------------------------------------------------------- streams

Streams == 1 .. (IF MaxStreams > MaxConcurrent THEN MaxStreams ELSE MaxConcurrent)

\* The handler's output channel: st is "unused" before the stream exists,
\* "nil" for a nil channel, else "open" or "closed"; ptr tells whether its
\* element type is a pointer to a struct (else interface{}).
InCh(st, cap, ptr, buf) == [st |-> st, cap |-> cap, ptr |-> ptr, buf |-> buf]
NoInCh == InCh("unused", 0, FALSE, <<>>)

\* The handler's close channel: whether it exists, whether the transport
\* has written to it and whether the handler has received that.
CloseCh(st, written, observed) == [st |-> st, written |-> written, observed |-> observed]
NoCloseCh == CloseCh("nil", FALSE, FALSE)

\* outChan: its buffer, whether it is closed, how often close(outChan) ran,
\* and whether a close or a send hit the closed channel (a runtime panic).
OutCh(buf, closed, closes, bad) ==
  [buf |-> buf, closed |-> closed, closes |-> closes, bad |-> bad]
NoOutCh == OutCh(<<>>, FALSE, 0, FALSE)

\* The forwarding goroutine: "idle" (not started), "select" (at
\* reflect.Select), "send" (at outChan <- buf, holding buf) or "done";
\* failed: an item did not encode.
Fwd(pc, buf, failed) == [pc |-> pc, buf |-> buf, failed |-> failed]
NoFwd == Fwd("idle", NilBytes, FALSE)

\* close(outChan)
CloseOut(o) == OutCh(o.buf, TRUE, o.closes + 1, o.bad \/ o.closed)

\* Mutant: the item is put in front of the queued ones.
SendOutFront(o, b) == OutCh(<<b>> \o o.buf, o.closed, o.closes, o.bad \/ o.closed)

\* outChan <- buf, once there is room
SendOut(o, b) == OutCh(Append(o.buf, b), o.closed, o.closes, o.bad \/ o.closed)

\* Mutant: the loop goes back to the select when the handler's channel is
\* closed.
FwdTurnIgnoreClose(f, o, v, ok) ==
  IF ~ok THEN [fwd |-> Fwd("select", NilBytes, f.failed), out |-> o]
  ELSE LET e == Encode(v) IN
       IF e.err # NilErr
         THEN [fwd |-> Fwd("done", NilBytes, TRUE), out |-> CloseOut(o)]
         ELSE [fwd |-> Fwd("send", e.buf, f.failed), out |-> o]

\* Mutant: an encoding error is logged and the loop goes on with the next
\* value.
FwdTurnSkip(f, o, v, ok) ==
  IF ~ok THEN [fwd |-> Fwd("done", NilBytes, f.failed), out |-> CloseOut(o)]
  ELSE LET e == Encode(v) IN
       IF e.err # NilErr
         THEN [fwd |-> Fwd("select", NilBytes, TRUE), out |-> o]
         ELSE [fwd |-> Fwd("send", e.buf, f.failed), out |-> o]

\* Mutant: after an encoding error out is closed but the loop goes on to
\* the send.
FwdTurnNoReturn(f, o, v, ok) ==
  IF ~ok THEN [fwd |-> Fwd("done", NilBytes, f.failed), out |-> CloseOut(o)]
  ELSE LET e == Encode(v) IN
       IF e.err # NilErr
         THEN [fwd |-> Fwd("send", e.buf, TRUE), out |-> CloseOut(o)]
         ELSE [fwd |-> Fwd("send", e.buf, f.failed), out |-> o]

\* One turn of the goroutine's loop after reflect.Select returned (v, ok):
\* the goroutine and outChan afterwards.
FwdTurn(f, o, v, ok) ==
  IF ~ok THEN [fwd |-> Fwd("done", NilBytes, f.failed), out |-> CloseOut(o)]
  ELSE LET e == Encode(v) IN
       IF e.err # NilErr
         THEN [fwd |-> Fwd("done", NilBytes, TRUE), out |-> CloseOut(o)]
         ELSE [fwd |-> Fwd("send", e.buf, f.failed), out |-> o]

\* The arguments of a call of RegisterRESTHandler, with the router as it
\* was when it was made.
Rest(since, namespace, method, muxBefore) ==
  [since |-> since, namespace |-> namespace, method |-> method, muxBefore |-> muxBefore]
NoRest == Rest(0, <<>>, "", <<>>)

\* An HTTP request.
Request(method, path, ctype, body) ==
  [method |-> method, path |-> path, ctype |-> ctype, body |-> body]

\* What the router did with an HTTP request: the pattern whose handler ran
\* (<<>>: none), the status of the response, and in the handler the JSON
\* text msgBuf, the message decoded from it and the reply written.
Http(req, pattern, status, msgBuf, msg, reply) ==
  [req |-> req, pattern |-> pattern, status |-> status, msgBuf |-> msgBuf,
   msg |-> msg, reply |-> reply]
NoHttp == Http(Request("", <<>>, "", <<>>), <<>>, 0, <<>>, <<>>, <<>>)

\* The last call and its result, with the registry and the number of
\* goroutines as they were when it was made.
Last(op, f, path, buf, ret, res, regBefore, nBefore) ==
  [op |-> op, f |-> f, path |-> path, buf |-> buf, ret |-> ret,
   reply |-> res.reply, tun |-> res.tun, err |-> res.err,
   called |-> res.called, calls |-> res.calls, arg |-> res.arg, regBefore |-> regBefore,
   nBefore |-> nBefore, procs |-> <<>>, rest |-> NoRest, http |-> NoHttp]

NoRes(e) ==
  [reply |-> NilBytes, tun |-> NoTunnel, err |-> e, called |-> 0, calls |-> 0,
   arg |-> NilVal]

\* NewServiceProcessor: an empty registry, no request processed yet.
Init ==
  /\ handlers = <<>>
  /\ last = Last("NewServiceProcessor", 0, <<>>, NilBytes, NoRet, NoRes(NilErr), <<>>, 0)
  /\ nstreams = 0
  /\ inChan = [s \in Streams |-> NoInCh]
  /\ closeChan = [s \in Streams |-> NoCloseCh]
  /\ outChan = [s \in Streams |-> NoOutCh]
  /\ fwd = [s \in Streams |-> NoFwd]
  /\ sent = [s \in Streams |-> <<>>]
  /\ delivered = [s \in Streams |-> <<>>]
  /\ mux = <<>>

\* p.RegisterHandler(f)
RegisterHandler(f) ==
  LET r == RegisterHandlerResult(handlers, f) IN
  /\ handlers' = r.reg
  /\ last' = Last("RegisterHandler", f, <<>>, NilBytes, NoRet, NoRes(r.err), handlers, nstreams)
  /\ UNCHANGED <<mux, streamVars>>

\* p.RegisterStreamingHandler(f)
RegisterStreamingHandler(f) ==
  LET r == RegisterStreamingHandlerResult(handlers, f) IN
  /\ handlers' = r.reg
  /\ last' = Last("RegisterStreamingHandler", f, <<>>, NilBytes, NoRet, NoRes(r.err), handlers, nstreams)
  /\ UNCHANGED <<mux, streamVars>>

\* The loop of RegisterHandlers over procs from registry reg: it returns at
\* the first error, and a panic of RegisterHandler leaves it the same way;
\* what the earlier iterations stored stays stored.
RegisterHandlersResult(reg, procs) ==
  LET loop[i \in 0 .. Len(procs)] ==
        IF i = 0 THEN [err |-> NilErr, reg |-> reg]
        ELSE IF loop[i - 1].err # NilErr THEN loop[i - 1]
        ELSE RegisterHandlerResult(loop[i - 1].reg, procs[i])
  IN loop[Len(procs)]

\* The loop of RegisterStreamingHandlers over procs from registry reg.
RegisterStreamingHandlersResult(reg, procs) ==
  LET loop[i \in 0 .. Len(procs)] ==
        IF i = 0 THEN [err |-> NilErr, reg |-> reg]
        ELSE IF loop[i - 1].err # NilErr THEN loop[i - 1]
        ELSE RegisterStreamingHandlerResult(loop[i - 1].reg, procs[i])
  IN loop[Len(procs)]

\* p.RegisterHandlers(procs...)
RegisterHandlers(procs) ==
  LET r == RegisterHandlersResult(handlers, procs) IN
  /\ handlers' = r.reg
  /\ last' = [Last("RegisterHandlers", 0, <<>>, NilBytes, NoRet, NoRes(r.err),
                    handlers, nstreams) EXCEPT !.procs = procs]
  /\ UNCHANGED <<mux, streamVars>>

\* p.RegisterStreamingHandlers(procs...)
RegisterStreamingHandlers(procs) ==
  LET r == RegisterStreamingHandlersResult(handlers, procs) IN
  /\ handlers' = r.reg
  /\ last' = [Last("RegisterStreamingHandlers", 0, <<>>, NilBytes, NoRet, NoRes(r.err),
                    handlers, nstreams) EXCEPT !.procs = procs]
  /\ UNCHANGED <<mux, streamVars>>

\* The handlers that batches are made of: valid unary ones (1, 3), valid
\* streaming ones (4, 5), the unary one over an unnamed struct (6) and one
\* that neither registration accepts (12).
BatchIds == {1, 3, 4, 5, 6, 12}

\* The argument lists of a variadic registration, up to MaxBatch handlers.
Batches == UNION {[1..n -> BatchIds] : n \in 0..MaxBatch}

\* ------------------------------------------------------------------- REST

DigitChars == <<"0", "1", "2", "3", "4", "5", "6", "7", "8", "9">>
HexChars == DigitChars \o <<"a", "b", "c", "d", "e", "f">>

Chars(seq) == {seq[i] : i \in 1 .. Len(seq)}

\* The value of a digit of DigitChars or HexChars.
CharVal(c) == (CHOOSE i \in 1 .. Len(HexChars) : HexChars[i] = c) - 1

\* fmt.Sprintf("%d", n) for n >= 0
RECURSIVE Itoa(_)
Itoa(n) ==
  IF n < Len(DigitChars) THEN <<DigitChars[n + 1]>>
  ELSE Itoa(n \div Len(DigitChars)) \o <<DigitChars[(n % Len(DigitChars)) + 1]>>

\* The number that a sequence of decimal digits writes.
RECURSIVE Atoi(_)
Atoi(ds) ==
  IF ds = <<>> THEN 0
  ELSE Atoi(SubSeq(ds, 1, Len(ds) - 1)) * Len(DigitChars) + CharVal(ds[Len(ds)])

\* strings.HasPrefix(s, prefix)
HasPrefix(s, prefix) == Len(prefix) <= Len(s) /\ SubSeq(s, 1, Len(prefix)) = prefix

\* regexp.MatchString of `^/v\d/<namespace>/<resource>/[class]+$` on p: one
\* digit after "/v", the two names as they are, then one or more
\* characters of class up to the end.
MatchPath(namespace, resource, class, p) ==
  \E d \in Chars(DigitChars) :
    LET pre == <<"/", "v", d, "/">> \o namespace \o <<"/">> \o resource \o <<"/">> IN
    /\ HasPrefix(p, pre)
    /\ Len(p) > Len(pre)
    /\ \A i \in (Len(pre) + 1) .. Len(p) : p[i] \in class

\* _, file := path.Split(p): what follows the final slash
PathFile(p) ==
  LET slashes == {i \in 1 .. Len(p) : p[i] = "/"}
      lst == IF slashes = {} THEN 0 ELSE CHOOSE i \in slashes : \A j \in slashes : j <= i
  IN SubSeq(p, lst + 1, Len(p))

\* hex.DecodeString(s): an error for an odd length (the characters are hex
\* digits already), else one byte for two digits.
HexDecode(h) ==
  IF Len(h) % 2 # 0 THEN [bytes |-> <<>>, err |-> Err("encoding/hex: odd length hex string", <<>>)]
  ELSE [bytes |-> [i \in 1 .. (Len(h) \div 2) |->
                     CharVal(h[2 * i - 1]) * Len(HexChars) + CharVal(h[2 * i])],
        err |-> NilErr]

\* A JSON text: ill-formed, or an object with no member or one member name
\* whose value is the token tok. A token is written raw (as %s puts it), is
\* a string of characters, or is the string base64 made of some bytes.
Tok(kind, raw) == [kind |-> kind, raw |-> raw]
Json(valid, name, tok) == [valid |-> valid, name |-> name, tok |-> tok]
JsonEmpty == Json(TRUE, <<>>, Tok("none", <<>>))
JsonBad == Json(FALSE, <<>>, Tok("none", <<>>))

\* A raw token is a JSON number when it is digits without a leading zero.
JsonNumber(raw) ==
  /\ raw # <<>>
  /\ Chars(raw) \subseteq Chars(DigitChars)
  /\ Len(raw) > 1 => raw[1] # "0"

\* A message struct of type t with the values vals of its fields.
RestMsg(t, vals) == [kind |-> "msg", type |-> t.str, vals |-> vals]

\* The zero value of a field of type ft.
Zero(ft) == IF ft.kind = "Int" THEN 0 ELSE <<>>

\* json.Unmarshal(msgBuf, msg) into a new struct of type t: an error for an
\* ill-formed text or a value that does not fit its field; a member that
\* names no field is skipped.
Unmarshal(msgBuf, t) ==
  LET fs == Fields(t)
      zero == [i \in 1 .. Len(fs) |-> Zero(fs[i].type)]
      hit == {i \in 1 .. Len(fs) : fs[i].name = msgBuf.name}
      fail(m) == [msg |-> RestMsg(t, zero), err |-> Err(m, <<>>)]
  IN
  IF ~msgBuf.valid THEN fail("json: syntax error")
  ELSE IF msgBuf.tok.kind = "raw" /\ ~JsonNumber(msgBuf.tok.raw) THEN fail("json: syntax error")
  ELSE IF msgBuf.tok.kind = "none" \/ hit = {} THEN [msg |-> RestMsg(t, zero), err |-> NilErr]
  ELSE LET i == CHOOSE j \in hit : TRUE
           fits == \/ fs[i].type.kind = "Int" /\ msgBuf.tok.kind = "raw"
                   \/ fs[i].type.kind = "Slice" /\ msgBuf.tok.kind = "b64"
                   \/ fs[i].type.kind = "String" /\ msgBuf.tok.kind = "str"
           val == IF msgBuf.tok.kind = "raw" THEN Atoi(msgBuf.tok.raw) ELSE msgBuf.tok.raw
       IN IF ~fits THEN fail("json: cannot unmarshal")
          ELSE [msg |-> RestMsg(t, [zero EXCEPT ![i] = val]), err |-> NilErr]

\* prepareHandlerGET(f): (kindGET, field name, error)
prepareHandlerGET(f) ==
  LET in0 == Elem(In(TypeOf(f), 0))
      res(k, name, e) == [k |-> k, name |-> name, err |-> e]
  IN
  IF in0.kind # "Struct"
    THEN res(invalidGET, <<>>, Err("input argument must be a struct", <<>>))
  ELSE IF Len(Fields(in0)) = 0 THEN res(emptyGET, <<>>, NilErr)
  ELSE IF Len(Fields(in0)) = 1
    THEN IF Fields(in0)[1].type.kind = "Slice" /\ Elem(Fields(in0)[1].type).kind = "Uint8"
           THEN res(sliceGET, Fields(in0)[1].name, NilErr)
         ELSE IF Fields(in0)[1].type.kind = "Int"
           THEN res(intGET, Fields(in0)[1].name, NilErr)
         ELSE res(invalidGET, <<>>, Err("only byte slices and int are supported", <<>>))
  ELSE res(invalidGET, <<>>, Err("number of fields must be 0 or 1", <<>>))

\* What the closure h of RegisterRESTHandler holds: f, sh, k, fieldNameGET,
\* namespace and resource. The method that was declared is not among them.
Route(f, sh, k, fieldNameGET, namespace, resource) ==
  [f |-> f, sh |-> sh, k |-> k, fieldNameGET |-> fieldNameGET,
   namespace |-> namespace, resource |-> resource]

\* mux.HandleFunc(pattern, h): ServeMux panics when the pattern has a
\* handler already.
HandleFunc(m, pattern, h) ==
  IF pattern \in DOMAIN m
    THEN [err |-> Panic("http: multiple registrations"), mux |-> m]
    ELSE [err |-> NilErr, mux |-> MapPut(m, pattern, h)]

\* The body of RegisterRESTHandler(f, since, namespace, method) on the
\* router m: the error returned and the router after.
RegisterRESTHandlerResult(m, f, since, namespace, method) ==
  IF method # "GET" /\ method # "POST" /\ method # "PUT"
    THEN [err |-> Err("invalid REST method", <<>>), mux |-> m]
  ELSE IF since < MinSince
    THEN [err |-> Err("earliest supported API level must be greater or equal to 3", <<>>),
          mux |-> m]
  ELSE LET c == createServiceHandler(f) IN
    IF c.err # NilErr THEN [err |-> c.err, mux |-> m]
    ELSE LET g == IF method = "GET" THEN prepareHandlerGET(f)
                  ELSE [k |-> invalidGET, name |-> <<>>, err |-> NilErr]
         IN
      IF g.err # NilErr THEN [err |-> g.err, mux |-> m]
      ELSE LET finalSlash == IF g.k = intGET \/ g.k = sliceGET THEN <<"/">> ELSE <<>>
               pattern == <<"/", "v">> \o Itoa(since) \o <<"/">> \o namespace
                            \o <<"/">> \o c.pm \o finalSlash
           IN HandleFunc(m, pattern, Route(f, c.sh, g.k, g.name, namespace, c.pm))

\* What the handler h of a route answers: the status, the handler called
\* (0: none), and the JSON text, the message and the reply it got to.
Resp(status, called, msgBuf, msg, reply) ==
  [status |-> status, called |-> called, msgBuf |-> msgBuf, msg |-> msg, reply |-> reply]

\* The closure h from json.Unmarshal on, the handler returning ret.
ServeMsgBuf(rt, msgBuf, ret) ==
  LET u == Unmarshal(msgBuf, rt.sh.msgType) IN
  IF u.err # NilErr THEN Resp(StatusBadRequest, 0, msgBuf, <<>>, <<>>)
  ELSE LET c == callInterfaceFunc(rt.f, u.msg, FALSE, ret) IN
       IF c.err # NilErr THEN Resp(StatusBadRequest, rt.f, msgBuf, u.msg, <<>>)
       ELSE IF c.stop # "nil" THEN Resp(StatusBadRequest, rt.f, msgBuf, u.msg, <<>>)
       ELSE Resp(StatusOK, rt.f, msgBuf, u.msg, <<c.reply>>)

\* Mutant: a POST or PUT is read whatever its content type.
ServeRouteAnyType(rt, req, ret) ==
  IF req.method = "GET"
    THEN IF rt.k = emptyGET THEN ServeMsgBuf(rt, JsonEmpty, ret)
         ELSE IF rt.k = intGET
           THEN IF ~MatchPath(rt.namespace, rt.resource, Chars(DigitChars), req.path)
                  THEN Resp(StatusNotFound, 0, <<>>, <<>>, <<>>)
                  ELSE ServeMsgBuf(rt, Json(TRUE, rt.fieldNameGET,
                                            Tok("raw", PathFile(req.path))), ret)
         ELSE IF rt.k = sliceGET
           THEN IF ~MatchPath(rt.namespace, rt.resource, Chars(HexChars), req.path)
                  THEN Resp(StatusNotFound, 0, <<>>, <<>>, <<>>)
                ELSE LET d == HexDecode(PathFile(req.path)) IN
                     IF d.err # NilErr THEN Resp(StatusBadRequest, 0, <<>>, <<>>, <<>>)
                     ELSE ServeMsgBuf(rt, Json(TRUE, rt.fieldNameGET, Tok("b64", d.bytes)), ret)
         ELSE Resp(StatusBadRequest, 0, <<>>, <<>>, <<>>)
  ELSE IF req.method = "POST" \/ req.method = "PUT"
    THEN ServeMsgBuf(rt, req.body, ret)
  ELSE Resp(StatusMethodNotAllowed, 0, <<>>, <<>>, <<>>)

\* The closure h of the route rt on the request req, the handler (if it is
\* called) returning ret.
ServeRoute(rt, req, ret) ==
  IF req.method = "GET"
    THEN IF rt.k = emptyGET THEN ServeMsgBuf(rt, JsonEmpty, ret)
         ELSE IF rt.k = intGET
           THEN IF ~MatchPath(rt.namespace, rt.resource, Chars(DigitChars), req.path)
                  THEN Resp(StatusNotFound, 0, <<>>, <<>>, <<>>)
                  ELSE ServeMsgBuf(rt, Json(TRUE, rt.fieldNameGET,
                                            Tok("raw", PathFile(req.path))), ret)
         ELSE IF rt.k = sliceGET
           THEN IF ~MatchPath(rt.namespace, rt.resource, Chars(HexChars), req.path)
                  THEN Resp(StatusNotFound, 0, <<>>, <<>>, <<>>)
                ELSE LET d == HexDecode(PathFile(req.path)) IN
                     IF d.err # NilErr THEN Resp(StatusBadRequest, 0, <<>>, <<>>, <<>>)
                     ELSE ServeMsgBuf(rt, Json(TRUE, rt.fieldNameGET, Tok("b64", d.bytes)), ret)
         ELSE Resp(StatusBadRequest, 0, <<>>, <<>>, <<>>)
  ELSE IF req.method = "POST" \/ req.method = "PUT"
    THEN IF req.ctype # "application/json"
           THEN Resp(StatusBadRequest, 0, <<>>, <<>>, <<>>)
           ELSE ServeMsgBuf(rt, req.body, ret)
  ELSE Resp(StatusMethodNotAllowed, 0, <<>>, <<>>, <<>>)

\* ServeMux's choice for path p: the pattern equal to p; else a redirect
\* when p with a final slash is a pattern; else the longest pattern ending
\* in a slash that p starts with; else not found.
MuxMatch(m, p) ==
  LET subs == {q \in DOMAIN m : q[Len(q)] = "/" /\ HasPrefix(p, q)} IN
  IF p \in DOMAIN m THEN [pattern |-> p, status |-> StatusOK]
  ELSE IF Append(p, "/") \in DOMAIN m THEN [pattern |-> <<>>, status |-> StatusMovedPermanently]
  ELSE IF subs = {} THEN [pattern |-> <<>>, status |-> StatusNotFound]
  ELSE [pattern |-> CHOOSE q \in subs : \A r \in subs : Len(r) <= Len(q),
        status |-> StatusOK]

\* The router serves the request req.
ServeHTTPResult(m, req, ret) ==
  LET mm == MuxMatch(m, req.path) IN
  IF mm.pattern = <<>> THEN [pattern |-> <<>>, resp |-> Resp(mm.status, 0, <<>>, <<>>, <<>>)]
  ELSE [pattern |-> mm.pattern, resp |-> ServeRoute(m[mm.pattern], req, ret)]

\* Mutant: a REST registration that succeeds also stores the handler in
\* the registry of the binary dispatch.
RegisterRESTHandlerStores(f, since, namespace, method) ==
  \E r \in {RegisterRESTHandlerResult(mux, f, since, namespace, method)} :
    /\ r.mux # mux => Cardinality(DOMAIN mux) < MaxRoutes
    /\ mux' = r.mux
    /\ last' = [Last("RegisterRESTHandler", f, <<>>, NilBytes, NoRet, NoRes(r.err),
                      handlers, nstreams)
                  EXCEPT !.rest = Rest(since, namespace, method, mux)]
    /\ handlers' = IF r.err = NilErr
                     THEN MapPut(handlers, createServiceHandler(f).pm,
                                 createServiceHandler(f).sh)
                     ELSE handlers
    /\ UNCHANGED streamVars

\* p.RegisterRESTHandler(f, since, namespace, method)
RegisterRESTHandler(f, since, namespace, method) ==
  \E r \in {RegisterRESTHandlerResult(mux, f, since, namespace, method)} :
    /\ r.mux # mux => Cardinality(DOMAIN mux) < MaxRoutes
    /\ mux' = r.mux
    /\ last' = [Last("RegisterRESTHandler", f, <<>>, NilBytes, NoRet, NoRes(r.err),
                      handlers, nstreams)
                  EXCEPT !.rest = Rest(since, namespace, method, mux)]
    /\ UNCHANGED <<handlers, streamVars>>

\* The web server hands the request req to the router; the handler, if the
\* route's closure calls it, returns ret.
ServeHTTP(req, ret) ==
  \E r \in {ServeHTTPResult(mux, req, ret)} :
    /\ last' = [Last("ServeHTTP", 0, <<>>, NilBytes,
                      IF r.resp.called = 0 THEN NoRet ELSE ret,
                      [NoRes(NilErr) EXCEPT !.called = r.resp.called,
                                            !.calls = IF r.resp.called = 0 THEN 0 ELSE 1],
                      handlers, nstreams)
                  EXCEPT !.rest = Rest(0, <<>>, "", mux),
                         !.http = Http(req, r.pattern, r.resp.status, r.resp.msgBuf,
                                       r.resp.msg, r.resp.reply)]
    /\ UNCHANGED <<mux, handlers, streamVars>>

\* The handlers given to RegisterRESTHandler: unary ones over p.A (one int
\* field), p.E, p.D, p.S and p.T, a streaming one (4), the one over an
\* unnamed struct (6), a value that is no function (7) and a function with
\* a bad first return value (12).
RestIds == {1, 4, 6, 7, 12} \cup
           ((Len(HandlerTypes) + 1) .. (Len(HandlerTypes) + Len(RestHandlerTypes)))

\* API levels, the namespace and the methods given to RegisterRESTHandler.
Sinces == {2, 3, 10}
Namespace == <<"n">>
Methods == {"GET", "POST", "PUT", "DELETE"}

\* The paths of requests: a version, the namespace, a resource and what
\* follows it.
ReqPaths ==
  {<<"/", "v">> \o v \o <<"/">> \o Namespace \o <<"/">> \o r \o t :
     v \in {<<"3">>, <<"1", "0">>},
     r \in {<<"A">>, <<"E">>, <<"D">>},
     t \in {<<>>, <<"/">>, <<"/", "4", "2">>, <<"/", "0", "7">>, <<"/", "a", "b">>,
            <<"/", "a">>}}

\* The requests: a GET, POSTs and PUTs with and without the JSON content
\* type and with a good and a bad body, and a DELETE.
Requests ==
  {Request("GET", p, "", JsonBad) : p \in ReqPaths}
  \cup {Request("POST", p, c, b) : p \in ReqPaths,
          c \in {"application/json", "", "text/plain"},
          b \in {Json(TRUE, <<"X">>, Tok("raw", <<"5">>)), JsonBad}}
  \cup {Request("PUT", p, c, Json(TRUE, <<"X">>, Tok("raw", <<"5">>))) : p \in ReqPaths,
          c \in {"application/json", ""}}
  \cup {Request("DELETE", p, "", JsonBad) : p \in ReqPaths}

\* What a handler called through REST returns.
RestReturns == {Ret(MsgPtr(1), "nil", NilErr), Ret(NilVal, "nil", E1)}

\* The REST registrations and the requests of the web server.
NextREST ==
  \/ \E f \in RestIds, since \in Sinces, method \in Methods :
       RegisterRESTHandler(f, since, Namespace, method)
  \/ \E req \in Requests, ret \in RestReturns : ServeHTTP(req, ret)

SpecREST == Init /\ [][NextREST]_vars

\* The REST registrations alone, the handler over p.L included.
NextRestRegister ==
  \E f \in RestIds \cup FieldIds, since \in Sinces, method \in Methods :
    RegisterRESTHandler(f, since, Namespace, method)

SpecRestRegister == Init /\ [][NextRestRegister]_vars

\* The route keys a transport may ask for: "A", "B" and the unregistered "C".
Paths == {<<"A">>, <<"B">>, <<"C">>}

\* The handler behaviours that can answer a request for path.
ReturnsFor(reg, path) ==
  IF path \in DOMAIN reg THEN HandlerReturns(TypeOf(reg[path].handler)) ELSE {NoRet}

\* p.ProcessClientRequest(req, path, buf), the handler (if called) returning
\* ret; a streaming request starts the forwarding goroutine.
ProcessClientRequestUpTo(path, buf, ret, max) ==
  LET r == ProcessResult(handlers, nstreams, path, buf, ret)
      s == nstreams + 1
  IN
  /\ r.spawn => nstreams < max
  /\ last' = Last("ProcessClientRequest", 0, path, buf,
                  IF r.called = 0 THEN NoRet ELSE ret, r, handlers, nstreams)
  /\ UNCHANGED <<mux, handlers, sent, delivered>>
  /\ IF r.spawn
       THEN /\ nstreams' = s
            /\ inChan' = [inChan EXCEPT ![s] =
                 InCh(IF r.inCh.x < 0 THEN "nil" ELSE "open",
                      IF r.inCh.x < 0 THEN 0 ELSE r.inCh.x,
                      Elem(Out(TypeOf(r.called), 0)).kind = "Ptr", <<>>)]
            /\ closeChan' = [closeChan EXCEPT ![s] =
                 CloseCh(IF r.tun.close = "nil" THEN "nil" ELSE "open", FALSE, FALSE)]
            /\ outChan' = [outChan EXCEPT ![s] = NoOutCh]
            /\ fwd' = [fwd EXCEPT ![s] = Fwd("select", NilBytes, FALSE)]
       ELSE UNCHANGED <<nstreams, inChan, closeChan, outChan, fwd>>

\* Requests of which at most MaxStreams start a stream.
ProcessClientRequest(path, buf, ret) ==
  ProcessClientRequestUpTo(path, buf, ret, MaxStreams)

\* The values a handler sends on a channel of element type ptr / interface{}.
Items(ptr) == IF ptr THEN {MsgPtr(1), MsgPtr(2)} ELSE {MsgPtr(1), MsgPtr(2), NonPtr(1)}

\* The handler sends v on its output channel: into the buffer when there is
\* room, or, on an unbuffered channel, straight to the goroutine waiting at
\* reflect.Select, which then runs its turn up to the send on outChan.
HandlerSendUpTo(s, v, max) ==
  /\ inChan[s].st = "open"
  /\ Len(sent[s]) < max
  /\ v \in Items(inChan[s].ptr)
  /\ sent' = [sent EXCEPT ![s] = Append(@, v)]
  /\ IF inChan[s].cap = 0
       THEN /\ fwd[s].pc = "select"
            /\ LET t == FwdTurn(fwd[s], outChan[s], v, TRUE) IN
               /\ fwd' = [fwd EXCEPT ![s] = t.fwd]
               /\ outChan' = [outChan EXCEPT ![s] = t.out]
            /\ UNCHANGED inChan
       ELSE /\ Len(inChan[s].buf) < inChan[s].cap
            /\ inChan' = [inChan EXCEPT ![s].buf = Append(@, v)]
            /\ UNCHANGED <<fwd, outChan>>
  /\ UNCHANGED <<mux, handlers, last, nstreams, closeChan, delivered>>

\* A handler that sends at most MaxItems values.
HandlerSend(s, v) == HandlerSendUpTo(s, v, MaxItems)

\* The handler closes its output channel.
HandlerClose(s) ==
  /\ inChan[s].st = "open"
  /\ inChan' = [inChan EXCEPT ![s].st = "closed"]
  /\ UNCHANGED <<mux, handlers, last, nstreams, closeChan, outChan, fwd, sent, delivered>>

\* The handler receives the cancellation from its close channel.
HandlerObserve(s) ==
  /\ closeChan[s].st = "open"
  /\ closeChan[s].written
  /\ ~closeChan[s].observed
  /\ closeChan' = [closeChan EXCEPT ![s].observed = TRUE]
  /\ UNCHANGED <<mux, handlers, last, nstreams, inChan, outChan, fwd, sent, delivered>>

\* The one case of the goroutine's select: a receive from the handler's
\* channel in. It returns a value when one is buffered ...
SelectValue(in, cc) == in.st \in {"open", "closed"} /\ in.buf # <<>>

\* Mutant: a write to the close channel ends the select like a closed
\* channel.
SelectClosedOrCancel(in, cc) == (in.st = "closed" /\ in.buf = <<>>) \/ cc.written

\* ... and ok = false once in is closed and drained. The close channel cc is
\* no case of the select.
SelectClosed(in, cc) == in.st = "closed" /\ in.buf = <<>>

\* Mutant: when the handler's channel is closed the goroutine also signals
\* on the close channel before it ends.
FwdSelectCancel(s) ==
  /\ fwd[s].pc = "select"
  /\ \/ /\ inChan[s].st \in {"open", "closed"} /\ inChan[s].buf # <<>>
        /\ LET t == FwdTurn(fwd[s], outChan[s], Head(inChan[s].buf), TRUE) IN
           /\ fwd' = [fwd EXCEPT ![s] = t.fwd]
           /\ outChan' = [outChan EXCEPT ![s] = t.out]
        /\ inChan' = [inChan EXCEPT ![s].buf = Tail(@)]
        /\ UNCHANGED closeChan
     \/ /\ inChan[s].st = "closed" /\ inChan[s].buf = <<>>
        /\ LET t == FwdTurn(fwd[s], outChan[s], NilVal, FALSE) IN
           /\ fwd' = [fwd EXCEPT ![s] = t.fwd]
           /\ outChan' = [outChan EXCEPT ![s] = t.out]
        /\ closeChan' = [closeChan EXCEPT ![s].written = TRUE]
        /\ UNCHANGED inChan
  /\ UNCHANGED <<mux, handlers, last, nstreams, sent, delivered>>

\* reflect.Select returns in the goroutine; then the turn of the loop.
FwdSelect(s) ==
  /\ fwd[s].pc = "select"
  /\ \/ /\ SelectValue(inChan[s], closeChan[s])
        /\ LET t == FwdTurn(fwd[s], outChan[s], Head(inChan[s].buf), TRUE) IN
           /\ fwd' = [fwd EXCEPT ![s] = t.fwd]
           /\ outChan' = [outChan EXCEPT ![s] = t.out]
        /\ inChan' = [inChan EXCEPT ![s].buf = Tail(@)]
     \/ /\ SelectClosed(inChan[s], closeChan[s])
        /\ LET t == FwdTurn(fwd[s], outChan[s], NilVal, FALSE) IN
           /\ fwd' = [fwd EXCEPT ![s] = t.fwd]
           /\ outChan' = [outChan EXCEPT ![s] = t.out]
        /\ UNCHANGED inChan
  /\ UNCHANGED <<mux, handlers, last, nstreams, closeChan, sent, delivered>>

\* Mutant: outChan takes a value however many it holds.
OutHasRoomAlways(o) == TRUE

\* A send on outChan, made with capacity OutCap, can proceed.
OutHasRoom(o) == Len(o.buf) < OutCap

\* Mutant: every goroutine sends on the out channel of the first tunnel.
FwdSendShared(s) ==
  /\ fwd[s].pc = "send"
  /\ OutHasRoom(outChan[1])
  /\ outChan' = [outChan EXCEPT ![1] = SendOut(@, fwd[s].buf)]
  /\ fwd' = [fwd EXCEPT ![s] = Fwd("select", NilBytes, @.failed)]
  /\ UNCHANGED <<mux, handlers, last, nstreams, inChan, closeChan, sent, delivered>>

\* outChan <- buf in the goroutine: blocks while outChan is full.
FwdSend(s) ==
  /\ fwd[s].pc = "send"
  /\ OutHasRoom(outChan[s])
  /\ outChan' = [outChan EXCEPT ![s] = SendOut(@, fwd[s].buf)]
  /\ fwd' = [fwd EXCEPT ![s] = Fwd("select", NilBytes, @.failed)]
  /\ UNCHANGED <<mux, handlers, last, nstreams, inChan, closeChan, sent, delivered>>

\* The transport reads the next item from the tunnel's out channel.
TransportRead(s) ==
  /\ s <= nstreams
  /\ outChan[s].buf # <<>>
  /\ delivered' = [delivered EXCEPT ![s] = Append(@, Head(outChan[s].buf))]
  /\ outChan' = [outChan EXCEPT ![s].buf = Tail(@)]
  /\ UNCHANGED <<mux, handlers, last, nstreams, inChan, closeChan, fwd, sent>>

\* The transport writes to the tunnel's close channel (the client is gone).
TransportCancel(s) ==
  /\ s <= nstreams
  /\ closeChan[s].st = "open"
  /\ ~closeChan[s].written
  /\ closeChan' = [closeChan EXCEPT ![s].written = TRUE]
  /\ UNCHANGED <<mux, handlers, last, nstreams, inChan, outChan, fwd, sent, delivered>>

\* The registration and dispatch operations of the processor's API.
NextAPI ==
  \/ \E f \in HandlerIds : RegisterHandler(f)
  \/ \E f \in HandlerIds : RegisterStreamingHandler(f)
  \/ \E path \in Paths, buf \in Payloads :
       \E ret \in ReturnsFor(handlers, path) : ProcessClientRequest(path, buf, ret)

\* Both entry points on one processor: registrations of handlers over p.A
\* and q.A, REST registrations of handlers over p.A, p.E, p.S and the
\* unnamed struct, and requests for the route keys "A" and "E".
BridgeIds == {1, 2, 4}
BridgeRestIds == {1, 6, Len(HandlerTypes) + 1, Len(HandlerTypes) + 3}
BridgePaths == {<<"A">>, <<"E">>}

NextBridge ==
  \/ \E f \in BridgeIds : RegisterHandler(f)
  \/ \E f \in BridgeIds : RegisterStreamingHandler(f)
  \/ \E f \in BridgeRestIds, since \in Sinces, method \in Methods :
       RegisterRESTHandler(f, since, Namespace, method)
  \/ \E path \in BridgePaths, buf \in Payloads :
       \E ret \in ReturnsFor(handlers, path) : ProcessClientRequest(path, buf, ret)

SpecBridge == Init /\ [][NextBridge]_vars

\* The steps of the handlers, the forwarding goroutines and the transport
\* on the streams that dispatch has started.
NextStream ==
  \/ \E path \in Paths, buf \in Payloads :
       \E ret \in ReturnsFor(handlers, path) : ProcessClientRequest(path, buf, ret)
  \/ \E s \in Streams, v \in Items(FALSE) : HandlerSend(s, v)
  \/ \E s \in Streams : HandlerClose(s)
  \/ \E s \in Streams : HandlerObserve(s)
  \/ \E s \in Streams : FwdSelect(s)
  \/ \E s \in Streams : FwdSend(s)
  \/ \E s \in Streams : TransportRead(s)
  \/ \E s \in Streams : TransportCancel(s)

\* The API alone: registrations and requests in any order, the goroutines
\* that requests start not yet scheduled.
SpecAPI == Init /\ [][NextAPI]_vars

\* The variadic registrations alone.
NextBatch ==
  \/ \E procs \in Batches : RegisterHandlers(procs)
  \/ \E procs \in Batches : RegisterStreamingHandlers(procs)

SpecBatch == Init /\ [][NextBatch]_vars

\* The two single registrations on every candidate handler, the faulty
\* ones included.
NextValidate ==
  \/ \E f \in HandlerIds \cup FaultyIds : RegisterHandler(f)
  \/ \E f \in HandlerIds \cup FaultyIds : RegisterStreamingHandler(f)

SpecValidate == Init /\ [][NextValidate]_vars

\* Every operation that touches the registry: the single and the variadic
\* registrations, and the requests.
NextRegistry == NextAPI \/ NextBatch

SpecRegistry == Init /\ [][NextRegistry]_vars

Next == NextAPI \/ NextBatch \/ NextREST \/ NextStream

\* The whole processor.
Spec == Init /\ [][Next]_vars

\* The processor after RegisterStreamingHandlers(4, 5): key "A" streams
\* interface{} values, key "B" streams pointers to structs.
InitStream ==
  /\ handlers = RegisterStreamingHandlerResult(
                  RegisterStreamingHandlerResult(<<>>, 4).reg, 5).reg
  /\ last = Last("RegisterStreamingHandler", 5, <<>>, NilBytes, NoRet, NoRes(NilErr),
                 RegisterStreamingHandlerResult(<<>>, 4).reg, 0)
  /\ nstreams = 0
  /\ inChan = [s \in Streams |-> NoInCh]
  /\ closeChan = [s \in Streams |-> NoCloseCh]
  /\ outChan = [s \in Streams |-> NoOutCh]
  /\ fwd = [s \in Streams |-> NoFwd]
  /\ sent = [s \in Streams |-> <<>>]
  /\ delivered = [s \in Streams |-> <<>>]
  /\ mux = <<>>

\* Requests and streams once registration is over.
SpecStream == InitStream /\ [][NextStream]_vars

\* The scheduler runs a goroutine that can take a step, and the transport
\* keeps reading the tunnel's out channel.
FairStream ==
  \A s \in Streams :
    /\ WF_vars(FwdSelect(s))
    /\ WF_vars(FwdSend(s))
    /\ WF_vars(TransportRead(s))

SpecStreamFair == SpecStream /\ FairStream

\* Enough values for a handler to fill outChan, the goroutine's hands and
\* its own channel, and to try some more.
FullItems == OutCap + MaxInCap + MaxItems

\* One stream of a handler that sends up to FullItems values and closes
\* its channel, of a transport that reads when it pleases, and of the
\* forwarding goroutine between them.
NextFull ==
  \/ \E c \in 0 .. MaxInCap :
       /\ nstreams = 0
       /\ ProcessClientRequest(<<"B">>, Bytes(<<8, 1>>), Ret(ChanVal(c), "c", NilErr))
  \/ \E s \in Streams : HandlerSendUpTo(s, MsgPtr(1), FullItems)
  \/ \E s \in Streams : HandlerClose(s)
  \/ \E s \in Streams : FwdSelect(s)
  \/ \E s \in Streams : FwdSend(s)
  \/ \E s \in Streams : TransportRead(s)

SpecFull == InitStream /\ [][NextFull]_vars

\* Up to MaxConcurrent streaming requests in flight at once, for "A" or
\* "B", each with its handler invocation, its goroutine and its reader.
NextConcurrent ==
  \/ \E path \in {<<"A">>, <<"B">>}, c \in 0 .. MaxInCap :
       ProcessClientRequestUpTo(path, Bytes(<<8, 1>>), Ret(ChanVal(c), "c", NilErr),
                                MaxConcurrent)
  \/ \E s \in Streams, v \in Items(FALSE) : HandlerSend(s, v)
  \/ \E s \in Streams : HandlerClose(s)
  \/ \E s \in Streams : FwdSelect(s)
  \/ \E s \in Streams : FwdSend(s)
  \/ \E s \in Streams : TransportRead(s)

SpecConcurrent == InitStream /\ [][NextConcurrent]_vars

\* The scheduler runs the forwarding goroutine when it can take a step;
\* nothing is assumed of the transport.
FairFwd ==
  \A s \in Streams :
    /\ WF_vars(FwdSelect(s))
    /\ WF_vars(FwdSend(s))

SpecFullFair == SpecFull /\ FairFwd

\* ------------------------------------------------------------------ claims

\* The encodings of a sequence of items, in order.
EncodeSeq(items) == [i \in 1 .. Len(items) |-> Encode(items[i]).buf]

AllEncode(items) == \A i \in 1 .. Len(items) : Encode(items[i]).err = NilErr

IsPrefix(a, b) == Len(a) <= Len(b) /\ SubSeq(b, 1, Len(a)) = a

\* What has left the goroutine on out: read by the transport or still queued.
Forwarded(s) == delivered[s] \o outChan[s].buf

C1_Safe ==
  \A s \in Streams :
    AllEncode(sent[s]) =>
      /\ IsPrefix(Forwarded(s), EncodeSeq(sent[s]))
      /\ outChan[s].closed =>
           /\ inChan[s].st = "closed"
           /\ Forwarded(s) = EncodeSeq(sent[s])

C1_Live ==
  \A s \in Streams :
    (inChan[s].st = "closed" /\ AllEncode(sent[s]))
      ~> (/\ outChan[s].closed
          /\ outChan[s].buf = <<>>
          /\ delivered[s] = EncodeSeq(sent[s]))

\* C1: when a streaming handler sends N values that all encode and then
\* closes its channel, out carries exactly the N encodings in the order
\* sent (never anything else, never out of order), out is closed only after
\* all of them, and with the goroutine scheduled and the transport reading
\* the transport eventually has read all N and finds out closed.
C1_StreamDelivery == []C1_Safe /\ C1_Live

\* A stream that delivered two different items in order and was then closed.
C1_Witness ==
  \E s \in Streams :
    /\ Len(sent[s]) = 2
    /\ sent[s][1] # sent[s][2]
    /\ AllEncode(sent[s])
    /\ outChan[s].closed
    /\ outChan[s].buf = <<>>
    /\ delivered[s] = EncodeSeq(sent[s])

IsDispatch == last.op = "ProcessClientRequest"

\* The entry the last request was routed to.
Routed == last.path \in DOMAIN last.regBefore

\* C2 as stated: every call of ProcessClientRequest that returns a nil error
\* returns exactly one non-nil result among the reply bytes and the tunnel.
C2_ExactlyOne ==
  (IsDispatch /\ last.err = NilErr) =>
    ((~last.reply.nil) # (last.tun.out # 0))

\* C2, amended: a call that returns a nil error returns at most one non-nil
\* result. For a streaming entry the tunnel is non-nil and the reply is nil;
\* for a unary entry the tunnel is nil and the reply is the bytes the encoder
\* gave for the handler's reply, which are nil when that reply is nil.
C2_AtMostOne ==
  (IsDispatch /\ last.err = NilErr) =>
    /\ Routed
    /\ ~(~last.reply.nil /\ last.tun.out # 0)
    /\ last.regBefore[last.path].streaming =>
         (last.tun.out # 0 /\ last.reply.nil)
    /\ ~last.regBefore[last.path].streaming =>
         /\ last.tun = NoTunnel
         /\ last.reply = Encode(last.ret.v0).buf
         /\ last.ret.v0 = NilVal => last.reply.nil

\* A unary handler returned (nil, nil) and the call returned all nil.
C2_Witness ==
  /\ IsDispatch
  /\ last.err = NilErr
  /\ last.called # 0
  /\ last.ret.v0 = NilVal
  /\ last.reply.nil
  /\ last.tun = NoTunnel

\* C3: a request for a route key that is not registered returns a non-nil
\* error with nil reply and nil tunnel, calls no handler, starts no
\* goroutine and leaves the registry as it was.
C3_Unregistered ==
  (IsDispatch /\ ~Routed) =>
    /\ last.err # NilErr
    /\ last.reply.nil
    /\ last.tun = NoTunnel
    /\ last.called = 0
    /\ nstreams = last.nBefore
    /\ \A s \in Streams : s > last.nBefore => fwd[s].pc = "idle"
    /\ handlers = last.regBefore

\* An unregistered key with a well-formed payload while two other routes
\* are registered.
C3_Witness ==
  /\ IsDispatch
  /\ ~Routed
  /\ Cardinality(DOMAIN handlers) = 2
  /\ Decode(last.buf).err = NilErr
  /\ last.err.msg = "The requested message hasn't been registered: "

\* C4: when the payload does not decode, the request returns a non-nil
\* error and the handler of the route is not called, for unary and
\* streaming entries.
C4_DecodeFirst ==
  (IsDispatch /\ Routed /\ Decode(last.buf).err # NilErr) =>
    /\ last.err # NilErr
    /\ last.called = 0
    /\ last.reply.nil
    /\ last.tun = NoTunnel
    /\ nstreams = last.nBefore

\* A malformed payload for a streaming route, with a unary route registered
\* beside it.
C4_Witness ==
  /\ IsDispatch
  /\ Routed
  /\ last.regBefore[last.path].streaming
  /\ \E k \in DOMAIN handlers : ~handlers[k].streaming
  /\ Decode(last.buf).err # NilErr
  /\ last.err = Decode(last.buf).err

\* C5: when the called handler returns a non-nil error, the request returns
\* that very error with nil reply and nil tunnel, and (for a streaming
\* entry) no tunnel or goroutine is created.
C5_HandlerError ==
  (IsDispatch /\ last.called # 0 /\ last.ret.e # NilErr) =>
    /\ last.err = last.ret.e
    /\ last.reply.nil
    /\ last.tun = NoTunnel
    /\ nstreams = last.nBefore
    /\ \A s \in Streams : s > last.nBefore => fwd[s].pc = "idle"

\* A streaming handler returned a live channel together with an error.
C5_Witness ==
  /\ IsDispatch
  /\ last.called # 0
  /\ Routed
  /\ last.regBefore[last.path].streaming
  /\ last.ret.e = E2
  /\ last.ret.v0 = ChanVal(0)
  /\ last.err = E2

\* C6: a write to the cancel channel does not close out. Whenever out is
\* closed or the goroutine has ended, the handler has closed its output
\* channel or one of its items did not encode; so while the handler keeps
\* its channel open after a cancel, out stays open and the goroutine stays
\* in its loop.
C6_CancelDoesNotClose ==
  \A s \in Streams :
    (outChan[s].closed \/ fwd[s].pc = "done") =>
      (inChan[s].st = "closed" \/ ~AllEncode(sent[s]))

\* The transport has cancelled, the handler has received the cancellation
\* but keeps its channel open: the goroutine waits at the select and out is
\* open, everything sent so far having been read.
C6_Witness ==
  \E s \in Streams :
    /\ closeChan[s].written
    /\ closeChan[s].observed
    /\ inChan[s].st = "open"
    /\ inChan[s].buf = <<>>
    /\ Len(sent[s]) >= 1
    /\ delivered[s] = EncodeSeq(sent[s])
    /\ fwd[s].pc = "select"
    /\ ~outChan[s].closed

\* C7: out is closed at most once, by the goroutine as its last step, and
\* no close or send ever hits the closed channel.
C7_OutClosedOnce ==
  \A s \in Streams :
    /\ outChan[s].closes <= 1
    /\ ~outChan[s].bad
    /\ outChan[s].closed <=> outChan[s].closes = 1
    /\ outChan[s].closed <=> fwd[s].pc = "done"

\* An item failed to encode and the handler closed its channel afterwards:
\* both reasons to close out have occurred, after an item was delivered.
C7_Witness ==
  \E s \in Streams :
    /\ ~AllEncode(sent[s])
    /\ inChan[s].st = "closed"
    /\ Len(delivered[s]) >= 1
    /\ outChan[s].closes = 1
    /\ fwd[s].pc = "done"

\* The handler shapes of the registration contract.
InputShape(ft) ==
  /\ ft.kind = "Func"
  /\ Len(ft.ins) = 1
  /\ ft.ins[1].kind = "Ptr"
  /\ ft.ins[1].elem[1].kind = "Struct"

PtrToStruct(t) == t.kind = "Ptr" /\ t.elem[1].kind = "Struct"

UnaryShape(ft) ==
  /\ InputShape(ft)
  /\ Len(ft.outs) = 2
  /\ ft.outs[1].kind = "Interface" \/ PtrToStruct(ft.outs[1])
  /\ ft.outs[2].err

StreamingShape(ft) ==
  /\ InputShape(ft)
  /\ Len(ft.outs) = 3
  /\ ft.outs[1].kind = "Chan"
  /\ ft.outs[1].elem[1].kind = "Interface" \/ PtrToStruct(ft.outs[1].elem[1])
  /\ ft.outs[2].kind = "Chan"
  /\ ft.outs[2].elem[1].kind = "Bool"
  /\ ft.outs[3].err

IsRegister == last.op \in {"RegisterHandler", "RegisterStreamingHandler"}

\* The call returned an error and the registry is as before.
Rejected ==
  /\ last.err # NilErr
  /\ last.err.msg # "panic"
  /\ handlers = last.regBefore

\* C8: RegisterHandler of a handler that has not the unary shape, and
\* RegisterStreamingHandler of one that has not the streaming shape, return
\* a non-nil error and leave the registry as it was.
C8_MalformedRejected ==
  /\ (last.op = "RegisterHandler" /\ ~UnaryShape(TypeOf(last.f))) => Rejected
  /\ (last.op = "RegisterStreamingHandler" /\ ~StreamingShape(TypeOf(last.f))) => Rejected

\* A streaming handler whose 2nd return value is a channel of ints is
\* rejected while its input type's key "B" is registered.
C8_Witness ==
  /\ last.op = "RegisterStreamingHandler"
  /\ last.f = 18
  /\ <<"B">> \in DOMAIN handlers
  /\ last.err.msg = "2nd return value must be a boolean channel"

\* The name of a type without its package qualifier: what follows the last
\* "." of its String().
UnqualifiedName(t) == LET parts == Split(t.str, ".") IN parts[Len(parts)]

InputType(f) == TypeOf(f).ins[1].elem[1]

\* C9 as stated: RegisterHandler of a handler of the unary shape returns nil
\* and stores the handler under the unqualified name of its input struct
\* type, and a request for a registered key whose payload decodes calls the
\* handler stored under it.
C9_ValidUnaryRegistered ==
  /\ (last.op = "RegisterHandler" /\ UnaryShape(TypeOf(last.f))) =>
       /\ last.err = NilErr
       /\ UnqualifiedName(InputType(last.f)) \in DOMAIN handlers
       /\ handlers[UnqualifiedName(InputType(last.f))] =
            ServiceHandler(last.f, InputType(last.f), FALSE)
  /\ (IsDispatch /\ Routed /\ Decode(last.buf).err = NilErr) =>
       last.called = last.regBefore[last.path].handler

\* C10: a successful registration stores its handler, with the mode of the
\* registration, under the key of its input type, replacing what was there
\* and leaving every other key alone; a failed one changes nothing. So every
\* key holds its most recent successful registration, and a request calls
\* the handler stored under its key in that entry's mode.
C10_LastRegistrationWins ==
  /\ (IsRegister /\ last.err = NilErr) =>
       /\ DOMAIN handlers = DOMAIN last.regBefore \cup {UnqualifiedName(InputType(last.f))}
       /\ handlers[UnqualifiedName(InputType(last.f))] =
            ServiceHandler(last.f, InputType(last.f), last.op = "RegisterStreamingHandler")
       /\ \A k \in DOMAIN last.regBefore :
            k # UnqualifiedName(InputType(last.f)) => handlers[k] = last.regBefore[k]
  /\ (IsRegister /\ last.err # NilErr) => handlers = last.regBefore
  /\ \A k \in DOMAIN handlers :
       handlers[k].streaming <=> StreamingShape(TypeOf(handlers[k].handler))
  /\ (IsDispatch /\ last.called # 0) =>
       /\ Routed
       /\ handlers = last.regBefore
       /\ last.called = handlers[last.path].handler
       /\ last.err = NilErr => (last.tun.out # 0 <=> handlers[last.path].streaming)

\* A streaming registration has replaced the unary entry of key "A".
C10_Witness ==
  /\ last.op = "RegisterStreamingHandler"
  /\ last.err = NilErr
  /\ <<"A">> \in DOMAIN last.regBefore
  /\ ~last.regBefore[<<"A">>].streaming
  /\ handlers[<<"A">>] = ServiceHandler(last.f, StructPA, TRUE)

IsBatch == last.op \in {"RegisterHandlers", "RegisterStreamingHandlers"}

\* C11 as stated: RegisterHandlers and RegisterStreamingHandlers stop at the
\* first handler that has not the shape of their mode and return the error
\* of that handler; the handlers before it are registered, the handlers
\* after it are not, and with no such handler the call returns nil and all
\* the handlers are registered.
C11_BatchStopsAtFirstFailure ==
  IsBatch =>
    LET streaming == last.op = "RegisterStreamingHandlers"
        procs == last.procs
        Valid(f) == IF streaming THEN StreamingShape(TypeOf(f)) ELSE UnaryShape(TypeOf(f))
        Single(f) == IF streaming THEN RegisterStreamingHandlerResult(<<>>, f)
                                  ELSE RegisterHandlerResult(<<>>, f)
        bad == {i \in 1..Len(procs) : ~Valid(procs[i])}
        k == IF bad = {} THEN Len(procs) + 1
             ELSE CHOOSE i \in bad : \A j \in bad : i <= j
        Key(i) == UnqualifiedName(InputType(procs[i]))
    IN
    /\ bad = {} => last.err = NilErr
    /\ bad # {} => /\ last.err # NilErr
                   /\ last.err.msg # "panic"
                   /\ last.err = Single(procs[k]).err
    /\ \A i \in 1..(k - 1) :
         /\ Key(i) \in DOMAIN handlers
         /\ (\A j \in (i + 1)..(k - 1) : Key(j) # Key(i)) =>
              handlers[Key(i)] = ServiceHandler(procs[i], InputType(procs[i]), streaming)
    /\ \A key \in DOMAIN handlers :
         key \notin {Key(i) : i \in 1..(k - 1)} =>
           key \in DOMAIN last.regBefore /\ handlers[key] = last.regBefore[key]
    /\ DOMAIN last.regBefore \subseteq DOMAIN handlers

\* The items a handler sent before the first one that does not encode.
BeforeFailure(items) ==
  LET bad == {i \in 1..Len(items) : Encode(items[i]).err # NilErr}
      k == CHOOSE i \in bad : \A j \in bad : i <= j
  IN SubSeq(items, 1, k - 1)

\* C12: when a stream item fails to encode, out never carries anything but
\* the encodings, in order, of the items sent before it; once the goroutine
\* has met the failure it has closed out and ended, out holds all of those
\* encodings, and nothing else (no error, no later item) reaches it.
C12_EncodeFailureEndsStream ==
  \A s \in Streams :
    /\ ~AllEncode(sent[s]) =>
         IsPrefix(Forwarded(s), EncodeSeq(BeforeFailure(sent[s])))
    /\ fwd[s].failed =>
         /\ ~AllEncode(sent[s])
         /\ fwd[s].pc = "done"
         /\ outChan[s].closed
         /\ outChan[s].closes = 1
         /\ ~outChan[s].bad
         /\ Forwarded(s) = EncodeSeq(BeforeFailure(sent[s]))

\* The handler sent a value that does not encode and then one that does:
\* the goroutine ended on the first, out is closed and empty, and the
\* second is left in the handler's channel.
C12_Witness ==
  \E s \in Streams :
    /\ Len(sent[s]) = 2
    /\ Encode(sent[s][1]).err # NilErr
    /\ Encode(sent[s][2]).err = NilErr
    /\ fwd[s].failed
    /\ outChan[s].closed
    /\ Forwarded(s) = <<>>
    /\ inChan[s].buf = <<sent[s][2]>>

\* The goroutine waits at outChan <- buf with outChan full.
BlockedFull(s) == fwd[s].pc = "send" /\ Len(outChan[s].buf) = OutCap

StreamEnded(s) == outChan[s].closed /\ fwd[s].pc = "done"

C14_BlockedStep(s) ==
  BlockedFull(s) =>
    /\ fwd'[s] = fwd[s]
    /\ ~outChan'[s].closed
    /\ outChan'[s].buf \in {outChan[s].buf, Tail(outChan[s].buf)}
    /\ IsPrefix(inChan[s].buf, inChan'[s].buf)
    /\ sent'[s] # sent[s] =>
         /\ Len(inChan[s].buf) < inChan[s].cap
         /\ inChan'[s].buf = Append(inChan[s].buf, sent'[s][Len(sent'[s])])

\* C14: out never holds more than OutCap items; when it is full and the
\* goroutine has an item to send, the goroutine waits (it neither drops the
\* item nor closes out) and takes nothing more from the handler, whose own
\* send blocks once its channel is full.
C14_BoundedOut ==
  /\ [](\A s \in Streams : Len(outChan[s].buf) <= OutCap)
  /\ [][\A s \in Streams : C14_BlockedStep(s)]_vars

\* out is full, the goroutine waits to send one more item, the handler's
\* buffered channel is full too, and the handler has more to send.
C14_Witness ==
  \E s \in Streams :
    /\ BlockedFull(s)
    /\ inChan[s].st = "open"
    /\ inChan[s].cap > 0
    /\ Len(inChan[s].buf) = inChan[s].cap
    /\ Len(sent[s]) = OutCap + 1 + inChan[s].cap
    /\ Len(sent[s]) < FullItems
    /\ delivered[s] = <<>>

\* A step of the dispatch engine: a call of ProcessClientRequest or a turn
\* of a forwarding goroutine.
EngineStep ==
  \/ last' # last
  \/ nstreams' # nstreams
  \/ fwd' # fwd
  \/ \E s \in Streams : outChan'[s].closes # outChan[s].closes

\* C15: the close channel of the tunnel that a streaming request returns is
\* the close channel its handler returned, and no step of the engine, in
\* ProcessClientRequest or in the forwarding goroutine, closes it, writes
\* to it or reads from it, before or after the stream has ended.
C15_CloseChannelUntouched ==
  /\ [](IsDispatch /\ last.tun.out # 0 =>
         /\ last.tun.close = last.ret.v1
         /\ closeChan[last.tun.out].st = (IF last.ret.v1 = "nil" THEN "nil" ELSE "open"))
  /\ [][EngineStep =>
         \A s \in Streams :
           IF s <= nstreams THEN closeChan'[s] = closeChan[s]
           ELSE /\ ~closeChan'[s].written
                /\ ~closeChan'[s].observed]_vars

\* The stream has ended (out closed, goroutine done) and the close channel
\* the handler returned holds the transport's signal, which nobody took.
C15_Witness ==
  /\ IsDispatch
  /\ last.tun.out # 0
  /\ last.ret.v1 = "c"
  /\ fwd[last.tun.out].pc = "done"
  /\ outChan[last.tun.out].closed
  /\ closeChan[last.tun.out] = CloseCh("open", TRUE, FALSE)

\* The forwarding goroutines started so far.
Started == {s \in Streams : fwd[s].pc # "idle"}

\* C20: every call of ProcessClientRequest that returns a tunnel has started
\* one forwarding goroutine, the one of that tunnel, and no other call has
\* started any: not a unary request, not a request that failed on its key,
\* its payload or its handler's error, and no registration.
C20_OneTaskPerTunnel ==
  /\ Started = 1 .. nstreams
  /\ IsDispatch =>
       /\ last.tun.out # 0 <=>
            (Routed /\ last.regBefore[last.path].streaming /\ last.err = NilErr)
       /\ last.tun.out # 0 => nstreams = last.nBefore + 1 /\ last.tun.out = nstreams
       /\ last.tun.out = 0 => nstreams = last.nBefore
  /\ ~IsDispatch => nstreams = last.nBefore

\* With one stream running, a request to a streaming entry whose handler
\* returned an error started no goroutine.
C20_Witness ==
  /\ IsDispatch
  /\ Routed
  /\ last.regBefore[last.path].streaming
  /\ last.called # 0
  /\ last.err = E1
  /\ last.nBefore = 1
  /\ nstreams = 1

IsRestRegister == last.op = "RegisterRESTHandler"

AllowedMethod(method) == method \in {"GET", "POST", "PUT"}

\* The input struct of f suits a GET route: no field, or one field that is
\* an int or a slice of bytes.
InputFitsGET(f) ==
  LET fs == Fields(InputType(f)) IN
  \/ Len(fs) = 0
  \/ /\ Len(fs) = 1
     /\ \/ fs[1].type.kind = "Int"
        \/ fs[1].type.kind = "Slice" /\ fs[1].type.elem[1].kind = "Uint8"

\* A handler that RegisterRESTHandler is meant to accept for method.
ValidRest(f, method) ==
  UnaryShape(TypeOf(f)) /\ (method = "GET" => InputFitsGET(f))

\* The path of the route of f: /v<since>/<namespace>/<name of f's input>
RoutePath(f, since, namespace) ==
  <<"/", "v">> \o Itoa(since) \o <<"/">> \o namespace \o <<"/">>
    \o UnqualifiedName(InputType(f))

\* The call returned an error and the router is as before.
RestRejected ==
  /\ last.err # NilErr
  /\ last.err.msg # "panic"
  /\ mux = last.rest.muxBefore

\* The call returned nil and the router holds a route of the handler at
\* its path (with or without a final slash).
RestRegistered ==
  /\ last.err = NilErr
  /\ \E q \in DOMAIN mux :
       /\ mux[q].f = last.f
       /\ q \in {RoutePath(last.f, last.rest.since, last.rest.namespace),
                 Append(RoutePath(last.f, last.rest.since, last.rest.namespace), "/")}

C16_BadArgsRejected ==
  (IsRestRegister /\ (last.rest.since < MinSince \/ ~AllowedMethod(last.rest.method)))
    => RestRejected

\* C16 as stated: RegisterRESTHandler returns an error and registers no
\* route when since is less than 3 or the method is not GET, POST or PUT;
\* with since at least 3, one of these methods and a valid handler it
\* registers the route.
C16_RestRegistration ==
  /\ C16_BadArgsRejected
  /\ (/\ IsRestRegister
      /\ last.rest.since >= MinSince
      /\ AllowedMethod(last.rest.method)
      /\ ValidRest(last.f, last.rest.method)) => RestRegistered

IsServe == last.op = "ServeHTTP"

\* The route whose handler ran for the last request.
ServedRoute == last.rest.muxBefore[last.http.pattern]

\* The last request was a GET that the router gave to a route of kind k.
GetOnRoute(k) ==
  /\ IsServe
  /\ last.http.req.method = "GET"
  /\ last.http.pattern # <<>>
  /\ ServedRoute.k = k

\* What follows the route's pattern in the path of the last request.
PathRest == SubSeq(last.http.req.path, Len(last.http.pattern) + 1, Len(last.http.req.path))

IsDigits(cs) == cs # <<>> /\ Chars(cs) \subseteq Chars(DigitChars)

\* C17 as stated: on a GET route of kind integer, registered with any
\* since >= 3, a GET of /v<since>/<namespace>/<resource>/<digits> calls
\* the handler with the message whose one field holds the number the
\* digits write, and a GET of any other path under the route is answered
\* 404 without a call of the handler.
C17_IntegerGet ==
  GetOnRoute(intGET) =>
    IF IsDigits(PathRest)
      THEN /\ last.called = ServedRoute.f
           /\ last.http.msg = RestMsg(ServedRoute.sh.msgType, <<Atoi(PathRest)>>)
           /\ last.http.msgBuf.name = Fields(ServedRoute.sh.msgType)[1].name
      ELSE /\ last.http.status = StatusNotFound
           /\ last.called = 0

\* C18: a POST or PUT that the router gives to a route, with a Content-Type
\* that is missing or is not application/json, is answered 400 and the
\* handler is not called, whatever the body.
C18_ContentTypeRequired ==
  (/\ IsServe
   /\ last.http.req.method \in {"POST", "PUT"}
   /\ last.http.pattern # <<>>
   /\ last.http.req.ctype # "application/json") =>
    /\ last.http.status = StatusBadRequest
    /\ last.called = 0
    /\ last.http.reply = <<>>

\* A POST without content type, with a body that the route's input struct
\* takes, was answered 400.
C18_Witness ==
  /\ IsServe
  /\ last.http.req.method = "POST"
  /\ last.http.req.ctype = ""
  /\ last.http.req.body.valid
  /\ last.http.pattern # <<>>
  /\ ServedRoute.k = invalidGET
  /\ Unmarshal(last.http.req.body, ServedRoute.sh.msgType).err = NilErr
  /\ last.http.status = StatusBadRequest
  /\ last.called = 0

\* The last request has the shape that a GET route of kind k serves: a GET
\* of the route's path alone (empty), followed by digits (integer) or
\* followed by hex digits (bytes).
GetShape(k) ==
  /\ last.http.req.method = "GET"
  /\ k = emptyGET => PathRest = <<>>
  /\ k = intGET => IsDigits(PathRest)
  /\ k = sliceGET => PathRest # <<>> /\ Chars(PathRest) \subseteq Chars(HexChars)

\* The router gave the last request to a route registered with method GET.
OnGetRoute ==
  /\ IsServe
  /\ last.http.pattern # <<>>
  /\ ServedRoute.k # invalidGET

\* C19 as stated: on a route registered with method GET, a request that
\* has not the GET shape of the route's kind is rejected without a call of
\* the handler; a POST or a PUT never calls the handler of a GET route.
C19_GetRouteOnlyGet ==
  (OnGetRoute /\ ~GetShape(ServedRoute.k)) =>
    /\ last.called = 0
    /\ last.http.status # StatusOK

\* The part of C19 on GET requests: a GET of another path shape does not
\* reach the handler.
C19_GetShapeOnly ==
  (OnGetRoute /\ last.http.req.method \notin {"POST", "PUT"}) => C19_GetRouteOnlyGet

\* The keys whose entry a step has added or replaced.
ChangedKeys ==
  {k \in DOMAIN handlers' : k \notin DOMAIN handlers \/ handlers'[k] # handlers[k]}

\* C21: from the empty registry of NewServiceProcessor on, no step takes a
\* key away; RegisterHandler and RegisterStreamingHandler leave the
\* registry as it is or add or replace one entry (the variadic forms, one
\* entry at most for each handler passed), and ProcessClientRequest,
\* whatever it returns, leaves the registry as it is.
C21_RegistryNeverShrinks ==
  [][/\ DOMAIN handlers \subseteq DOMAIN handlers'
     /\ last'.op \in {"RegisterHandler", "RegisterStreamingHandler"} =>
          Cardinality(ChangedKeys) <= 1
     /\ last'.op \in {"RegisterHandlers", "RegisterStreamingHandlers"} =>
          Cardinality(ChangedKeys) <= Len(last'.procs)
     /\ last'.op = "ProcessClientRequest" => handlers' = handlers]_vars

\* A request that started a stream found two keys, one of them registered
\* twice, and left both.
C21_Witness ==
  /\ IsDispatch
  /\ last.tun.out # 0
  /\ DOMAIN handlers = {<<"A">>, <<"B">>}
  /\ handlers = last.regBefore
  /\ handlers[<<"A">>].streaming
  /\ nstreams = 1

\* The checks of the contract in the order of the claim: 1 is a function,
\* 2 one argument, 3 the argument is a pointer, 4 to a struct, 5 the number
\* of return values, 6 the 1st, 7 the 2nd and 8 (streaming) the 3rd return
\* value. FirstViolation is the first check that ft fails, 0 if none.
FirstViolation(ft, streaming) ==
  IF ft.kind # "Func" THEN 1
  ELSE IF Len(ft.ins) # 1 THEN 2
  ELSE IF ft.ins[1].kind # "Ptr" THEN 3
  ELSE IF ft.ins[1].elem[1].kind # "Struct" THEN 4
  ELSE IF Len(ft.outs) # (IF streaming THEN 3 ELSE 2) THEN 5
  ELSE IF streaming
    THEN IF ~(/\ ft.outs[1].kind = "Chan"
              /\ ft.outs[1].elem[1].kind = "Interface" \/ PtrToStruct(ft.outs[1].elem[1]))
           THEN 6
         ELSE IF ~(ft.outs[2].kind = "Chan" /\ ft.outs[2].elem[1].kind = "Bool") THEN 7
         ELSE IF ~ft.outs[3].err THEN 8
         ELSE 0
  ELSE IF ~(ft.outs[1].kind = "Interface" \/ PtrToStruct(ft.outs[1])) THEN 6
  ELSE IF ~ft.outs[2].err THEN 7
  ELSE 0

\* The check that a diagnostic reports.
DiagnosticOf(e) ==
  IF e.msg = "Input is not a function" THEN 1
  ELSE IF e.msg = "Need one argument: *struct" THEN 2
  ELSE IF e.msg = "Argument must be a *pointer* to a struct" THEN 3
  ELSE IF e.msg = "Argument must be a pointer to *struct*" THEN 4
  ELSE IF e.msg \in {"Need 2 return values: network.Body and error",
                     "Need 3 return values: chan interface{}, chan bool and error"} THEN 5
  ELSE IF e.msg \in {"1st return value must be a *pointer* to a struct or an interface",
                     "1st return value must be a pointer to a *struct* or an interface",
                     "1st return value must be a channel",
                     "1st return value must be a channel of a *pointer* to a struct",
                     "1st return value must be a channel of a pointer to a *struct*"} THEN 6
  ELSE IF e.msg \in {"2nd return value has to implement error, but is: ",
                     "2nd return value must be a channel",
                     "2nd return value must be a boolean channel"} THEN 7
  ELSE IF e.msg = "3rd return value has to implement error, but is: " THEN 8
  ELSE 0

\* C22: RegisterHandler and RegisterStreamingHandler of a handler that
\* breaks the contract return one diagnostic, that of the first check the
\* handler fails in the order: function, argument count, pointer argument,
\* pointer to struct, number of return values, 1st, 2nd, 3rd return value.
C22_FirstFailingCheck ==
  IsRegister =>
    LET v == FirstViolation(TypeOf(last.f), last.op = "RegisterStreamingHandler") IN
    v # 0 => /\ last.err # NilErr
             /\ DiagnosticOf(last.err) = v

\* A streaming registration of a handler whose 2nd and 3rd return values
\* are both bad got the diagnostic of the 2nd.
C22_Witness ==
  /\ last.op = "RegisterStreamingHandler"
  /\ FirstViolation(TypeOf(last.f), TRUE) = 7
  /\ ~TypeOf(last.f).outs[3].err
  /\ last.err.msg = "2nd return value must be a boolean channel"

\* The kinds of Go's integer types.
IntegerKinds ==
  {"Int", "Int8", "Int16", "Int32", "Int64",
   "Uint", "Uint8", "Uint16", "Uint32", "Uint64"}

\* The call returned nil and the router holds a route of the handler, of
\* GET kind k, at its path.
RestRegisteredKind(k) ==
  /\ last.err = NilErr
  /\ \E q \in DOMAIN mux :
       /\ mux[q].f = last.f
       /\ mux[q].k = k
       /\ q \in {RoutePath(last.f, last.rest.since, last.rest.namespace),
                 Append(RoutePath(last.f, last.rest.since, last.rest.namespace), "/")}

\* The GET kind that the claim gives to a struct with the fields fs
\* (invalidGET: the registration fails), an integer being a field whose
\* kind is in ints.
ClaimedKind(fs, ints) ==
  IF Len(fs) = 0 THEN emptyGET
  ELSE IF Len(fs) = 1 /\ fs[1].type.kind \in ints THEN intGET
  ELSE IF Len(fs) = 1 /\ fs[1].type.kind = "Slice" /\ fs[1].type.elem[1].kind = "Uint8"
    THEN sliceGET
  ELSE invalidGET

\* A REST registration that passes the checks before the GET kind: since
\* at least 3, an allowed method and a handler of the unary shape.
RestChecked ==
  /\ IsRestRegister
  /\ last.rest.since >= MinSince
  /\ AllowedMethod(last.rest.method)
  /\ UnaryShape(TypeOf(last.f))

\* The registration of the kinds of the claim, with ints as integers.
GetKindAsClaimed(ints) ==
  LET k == ClaimedKind(Fields(InputType(last.f)), ints) IN
  IF last.rest.method = "GET"
    THEN IF k = invalidGET THEN RestRejected ELSE RestRegisteredKind(k)
    ELSE RestRegistered

\* C23 as stated: a GET registration gets the kind empty for an input
\* struct with no field, integer for one field of integer type,
\* byte-sequence for one field that is a byte slice, and fails with an error
\* and no route for every other input; a POST or PUT registration is
\* accepted whatever the fields.
C23_GetKind ==
  RestChecked => GetKindAsClaimed(IntegerKinds)

\* The part of C23 that the code keeps: the same, for handlers over named
\* structs on a pattern that has no handler yet, an integer being a field
\* of kind Int only.
C23_GetKindNamedFresh ==
  (/\ RestChecked
   /\ \E i \in DOMAIN InputType(last.f).str : InputType(last.f).str[i] = "."
   /\ RoutePath(last.f, last.rest.since, last.rest.namespace)
         \notin DOMAIN last.rest.muxBefore
   /\ Append(RoutePath(last.f, last.rest.since, last.rest.namespace), "/")
         \notin DOMAIN last.rest.muxBefore)
    => GetKindAsClaimed({"Int"})

\* C24: a call of RegisterRESTHandler, whether it returns nil, an error or
\* panics, leaves the registry of the binary dispatch as it was (so it
\* overwrites no entry of RegisterHandler or RegisterStreamingHandler), and
\* a request for a route key that is not in that registry, the resource of a
\* REST route included, returns the unregistered-route error without
\* calling a handler.
C24_RestLeavesRegistry ==
  [][/\ last'.op = "RegisterRESTHandler" => handlers' = handlers
     /\ (last'.op = "ProcessClientRequest" /\ last'.path \notin DOMAIN handlers) =>
          /\ last'.err.msg = "The requested message hasn't been registered: "
          /\ last'.called = 0
          /\ last'.reply.nil
          /\ last'.tun = NoTunnel]_vars

\* The handler over p.E has a REST route, the registry holds the streaming
\* handler over p.A only, and a request for "E" got the unregistered-route
\* error.
C24_Witness ==
  /\ IsDispatch
  /\ last.path = <<"E">>
  /\ \E q \in DOMAIN mux : mux[q].resource = <<"E">> /\ mux[q].f = Len(HandlerTypes) + 1
  /\ DOMAIN handlers = {<<"A">>}
  /\ handlers[<<"A">>].streaming
  /\ last.err.msg = "The requested message hasn't been registered: "

\* What has left the goroutine of s is the encodings of the first items
\* that the handler invocation of s sent, in the order sent.
OwnItemsOnly(s) ==
  \E n \in 0 .. Len(sent[s]) :
    /\ AllEncode(SubSeq(sent[s], 1, n))
    /\ Forwarded(s) = EncodeSeq(SubSeq(sent[s], 1, n))

\* Whatever the other streams do, the goroutine of s at its send can send
\* when out has room, and the transport can read what out holds.
NotBlockedByOthers(s) ==
  /\ (fwd[s].pc = "send" /\ OutHasRoom(outChan[s])) => ENABLED FwdSend(s)
  /\ (s <= nstreams /\ outChan[s].buf # <<>>) => ENABLED TransportRead(s)

\* A step that closes the out channel of s, or that has the goroutine of s
\* fail on an encoding, changes nothing of another stream t.
OthersUntouched(s) ==
  (outChan'[s].closed # outChan[s].closed \/ fwd'[s].failed # fwd[s].failed) =>
    \A t \in Streams \ {s} :
      /\ outChan'[t] = outChan[t]
      /\ fwd'[t] = fwd[t]
      /\ inChan'[t] = inChan[t]
      /\ delivered'[t] = delivered[t]

\* C25: with several streaming requests in flight, for the same or for
\* different route keys, the out channel of each tunnel carries only the
\* encodings of the items sent by the handler invocation of its own
\* request, in the order sent, and the closing of a stream or its encoding
\* failure neither closes nor blocks the out channel of another stream.
C25_StreamsIsolated ==
  /\ [](\A s \in Streams : OwnItemsOnly(s) /\ NotBlockedByOthers(s))
  /\ [][\A s \in Streams : OthersUntouched(s)]_vars

\* Two streams of the same route key: the first ended on an item that does
\* not encode, the second has passed two other items on, in order, and its
\* out channel is open.
C25_Witness ==
  /\ nstreams = 2
  /\ fwd[1].failed
  /\ outChan[1].closed
  /\ ~inChan[1].ptr /\ ~inChan[2].ptr
  /\ Len(sent[2]) = 2
  /\ sent[2][1] # sent[2][2]
  /\ sent[2][1] \notin {sent[1][i] : i \in DOMAIN sent[1]}
  /\ delivered[2] = EncodeSeq(sent[2])
  /\ ~outChan[2].closed


\* C26: a call of ProcessClientRequest invokes a handler at most once, and
\* exactly once when the route key is registered and the payload decodes;
\* the handler invoked is the one the registry held under the requested
\* route key when the call looked it up, never the handler of another key.
C26_HandlerInvokedOnce ==
  IsDispatch =>
    /\ last.calls <= 1
    /\ (Routed /\ Decode(last.buf).err = NilErr) => last.calls = 1
    /\ last.calls >= 1 =>
         /\ Routed
         /\ last.called = last.regBefore[last.path].handler
         /\ \A k \in DOMAIN last.regBefore :
              k # last.path => last.regBefore[k].handler # last.called

\* A request for "B", with handlers registered under "A" and "B", invoked
\* the handler of "B" once.
C26_Witness ==
  /\ IsDispatch
  /\ last.path = <<"B">>
  /\ DOMAIN last.regBefore = {<<"A">>, <<"B">>}
  /\ last.calls = 1
  /\ last.called = last.regBefore[<<"B">>].handler
  /\ last.called # last.regBefore[<<"A">>].handler

====
